---------------------------- MODULE Spec2Model ----------------------------
(***************************************************************************)
(* A model of sympl's time integrators (sympl/_components/timesteppers.py, *)
(* sympl/_core/state.py, sympl/_core/steppers.py) and of the component     *)
(* call pipeline with its inflow and outflow checks                        *)
(* (sympl/_core/core_components.py, dynamic_checkers.py, checks.py).       *)
(*                                                                         *)
(* Quantities are Python floats (IEEE-754 binary64, round to nearest       *)
(* even).  TLC's integers are 32 bits wide, so a significand is kept as a  *)
(* little-endian sequence of 14-bit limbs.                                 *)
(***************************************************************************)
EXTENDS Integers, Sequences, FiniteSets, TLC

(***************************************************************************)
(* Natural numbers of arbitrary size: <<>> is 0, no high zero limb.        *)
(***************************************************************************)
LimbBits == 7 * 2
Limb == 2 ^ LimbBits

RECURSIVE BTrim(_)
BTrim(a) ==
    IF a = <<>> THEN a
    ELSE IF a[Len(a)] = 0 THEN BTrim(SubSeq(a, 1, Len(a) - 1)) ELSE a

RECURSIVE BFromNat(_)
BFromNat(n) ==
    IF n = 0 THEN <<>> ELSE <<n % Limb>> \o BFromNat(n \div Limb)

BLimb(a, i) == IF i <= Len(a) THEN a[i] ELSE 0

RECURSIVE BAddC(_, _, _, _)
BAddC(a, b, i, c) ==
    IF i > Len(a) /\ i > Len(b)
    THEN (IF c = 0 THEN <<>> ELSE <<c>>)
    ELSE LET s == BLimb(a, i) + BLimb(b, i) + c
         IN  <<s % Limb>> \o BAddC(a, b, i + 1, s \div Limb)

BAdd(a, b) == BAddC(a, b, 1, 0)

RECURSIVE BSubC(_, _, _, _)
BSubC(a, b, i, br) ==
    IF i > Len(a) THEN <<>>
    ELSE LET d == BLimb(a, i) - BLimb(b, i) - br
         IN  IF d < 0 THEN <<d + Limb>> \o BSubC(a, b, i + 1, 1)
             ELSE <<d>> \o BSubC(a, b, i + 1, 0)

\* a - b, for a >= b
BSub(a, b) == BTrim(BSubC(a, b, 1, 0))

RECURSIVE BCmpFrom(_, _, _)
BCmpFrom(a, b, i) ==
    IF i = 0 THEN 0
    ELSE IF a[i] < b[i] THEN -1
    ELSE IF a[i] > b[i] THEN 1
    ELSE BCmpFrom(a, b, i - 1)

\* -1, 0 or 1 as a < b, a = b, a > b
BCmp(a, b) ==
    IF Len(a) < Len(b) THEN -1
    ELSE IF Len(a) > Len(b) THEN 1
    ELSE BCmpFrom(a, b, Len(a))

RECURSIVE BMulSmallC(_, _, _, _)
BMulSmallC(a, k, i, c) ==
    IF i > Len(a) THEN (IF c = 0 THEN <<>> ELSE <<c>>)
    ELSE LET p == a[i] * k + c
         IN  <<p % Limb>> \o BMulSmallC(a, k, i + 1, p \div Limb)

\* a * k, for 0 <= k < Limb
BMulSmall(a, k) == IF k = 0 THEN <<>> ELSE BMulSmallC(a, k, 1, 0)

BShlLimbs(a, q) == IF a = <<>> THEN a ELSE [i \in 1..q |-> 0] \o a

RECURSIVE BMulFrom(_, _, _)
BMulFrom(a, b, i) ==
    IF i > Len(b) THEN <<>>
    ELSE BAdd(BShlLimbs(BMulSmall(a, b[i]), i - 1), BMulFrom(a, b, i + 1))

BMul(a, b) == BMulFrom(a, b, 1)

RECURSIVE BDivSmallC(_, _, _, _)
BDivSmallC(a, k, i, r) ==
    IF i = 0 THEN <<>>
    ELSE LET t == r * Limb + a[i]
         IN  BDivSmallC(a, k, i - 1, t % k) \o <<t \div k>>

\* floor(a / k), for 0 < k < Limb
BDivSmall(a, k) == BTrim(BDivSmallC(a, k, Len(a), 0))

RECURSIVE BModSmallC(_, _, _, _)
BModSmallC(a, k, i, r) ==
    IF i = 0 THEN r ELSE BModSmallC(a, k, i - 1, (r * Limb + a[i]) % k)

BModSmall(a, k) == BModSmallC(a, k, Len(a), 0)

\* a * 2^n
BShl(a, n) == BShlLimbs(BMulSmall(a, 2 ^ (n % LimbBits)), n \div LimbBits)

\* floor(a / 2^n)
BShr(a, n) ==
    LET q == n \div LimbBits
    IN  IF q >= Len(a) THEN <<>>
        ELSE BDivSmall(SubSeq(a, q + 1, Len(a)), 2 ^ (n % LimbBits))

\* a mod 2^n = 0
BLowBitsZero(a, n) ==
    LET q == n \div LimbBits
    IN  /\ \A i \in 1..q : BLimb(a, i) = 0
        /\ BLimb(a, q + 1) % (2 ^ (n % LimbBits)) = 0

RECURSIVE NatBitLen(_)
NatBitLen(n) == IF n = 0 THEN 0 ELSE 1 + NatBitLen(n \div 2)

BitLen(a) ==
    IF a = <<>> THEN 0 ELSE (Len(a) - 1) * LimbBits + NatBitLen(a[Len(a)])

BIsOdd(a) == a # <<>> /\ a[1] % 2 = 1

(***************************************************************************)
(* Python floats.  [sgn, man, exp] is sgn * man * 2^exp with man of        *)
(* exactly MantBits bits, or man = <<>> for zero.  Overflow, subnormals    *)
(* and NaN are outside the values the model draws.                         *)
(***************************************************************************)
MantBits == 52 + 1

FZero == [sgn |-> 1, man |-> <<>>, exp |-> 0]

\* round sgn * (m + sticky fraction) * 2^e to nearest, ties to even
FRound(sgn, m, e, sticky) ==
    LET len == BitLen(m)
    IN  IF m = <<>> THEN FZero
        ELSE IF len <= MantBits
        THEN [sgn |-> sgn, man |-> BShl(m, MantBits - len),
              exp |-> e - (MantBits - len)]
        ELSE LET d     == len - MantBits
                 q     == BShr(m, d)
                 half  == BIsOdd(BShr(m, d - 1))
                 lower == sticky \/ ~BLowBitsZero(m, d - 1)
                 up    == half /\ (lower \/ BIsOdd(q))
                 q2    == IF up THEN BAdd(q, <<1>>) ELSE q
             IN  IF BitLen(q2) > MantBits
                 THEN [sgn |-> sgn, man |-> BShr(q2, 1), exp |-> e + d + 1]
                 ELSE [sgn |-> sgn, man |-> q2, exp |-> e + d]

FFromInt(n) ==
    IF n < 0 THEN FRound(-1, BFromNat(-n), 0, FALSE)
    ELSE FRound(1, BFromNat(n), 0, FALSE)

FNeg(a) == IF a.man = <<>> THEN a ELSE [a EXCEPT !.sgn = -a.sgn]

FMul(a, b) ==
    IF a.man = <<>> \/ b.man = <<>> THEN FZero
    ELSE FRound(a.sgn * b.sgn, BMul(a.man, b.man), a.exp + b.exp, FALSE)

FAdd(a, b) ==
    IF a.man = <<>> THEN b
    ELSE IF b.man = <<>> THEN a
    ELSE LET e  == IF a.exp < b.exp THEN a.exp ELSE b.exp
             ma == BShl(a.man, a.exp - e)
             mb == BShl(b.man, b.exp - e)
             c  == BCmp(ma, mb)
         IN  IF a.sgn = b.sgn THEN FRound(a.sgn, BAdd(ma, mb), e, FALSE)
             ELSE IF c = 0 THEN FZero
             ELSE IF c > 0 THEN FRound(a.sgn, BSub(ma, mb), e, FALSE)
             ELSE FRound(b.sgn, BSub(mb, ma), e, FALSE)

FSub(a, b) == FAdd(a, FNeg(b))

\* a / k for a float a and an integer 0 < k < Limb
FDivInt(a, k) ==
    IF a.man = <<>> THEN FZero
    ELSE LET m == BShl(a.man, 5 * LimbBits)
         IN  FRound(a.sgn, BDivSmall(m, k), a.exp - 5 * LimbBits,
                    BModSmall(m, k) # 0)

\* p / q as the float literal expression p.0 / q of the source
FRat(p, q) == FDivInt(FFromInt(p), q)

(***************************************************************************)
(* States are Python dicts: functions from a set of quantity names to      *)
(* floats.  "time" is the reserved entry, "x" the quantity the components  *)
(* give a tendency for, "y" a quantity no component touches.               *)
(***************************************************************************)
EmptyDict == [k \in {} |-> FZero]

Min(a, b) == IF a < b THEN a ELSE b

\* timedelta.total_seconds() of a timestep of dt whole seconds
total_seconds(dt) == FFromInt(dt)

copy_untouched_quantities(old_state, new_state) ==
    [key \in DOMAIN old_state \cup DOMAIN new_state |->
        IF key \in DOMAIN new_state THEN new_state[key] ELSE old_state[key]]

add(state_1, state_2) ==
    [key \in DOMAIN state_1 |->
        IF key = "time" THEN state_1[key]
        ELSE FAdd(state_1[key], state_2[key])]

multiply(scalar, state) ==
    [key \in DOMAIN state |->
        IF key = "time" THEN state[key] ELSE FMul(scalar, state[key])]

step_forward_euler(state, tendencies, secs) ==
    [key \in DOMAIN tendencies |->
        FAdd(state[key], FMul(tendencies[key], secs))]

\* tendencies_list[-i]
FromEnd(tendencies_list, i) == tendencies_list[Len(tendencies_list) + 1 - i]

second_bashforth(state, tendencies_list, secs) ==
    [key \in DOMAIN tendencies_list[1] |->
        FAdd(state[key],
             FMul(secs,
                  FSub(FMul(FRat(3, 2), FromEnd(tendencies_list, 1)[key]),
                       FMul(FRat(1, 2), FromEnd(tendencies_list, 2)[key]))))]

third_bashforth(state, tendencies_list, secs) ==
    [key \in DOMAIN tendencies_list[1] |->
        FAdd(state[key],
             FMul(secs,
                  FAdd(FSub(FMul(FRat(23, 12), FromEnd(tendencies_list, 1)[key]),
                            FMul(FRat(4, 3), FromEnd(tendencies_list, 2)[key])),
                       FMul(FRat(5, 12), FromEnd(tendencies_list, 3)[key]))))]

fourth_bashforth(state, tendencies_list, secs) ==
    [key \in DOMAIN tendencies_list[1] |->
        FAdd(state[key],
             FMul(secs,
                  FSub(FAdd(FSub(FMul(FRat(55, 24), FromEnd(tendencies_list, 1)[key]),
                                 FMul(FRat(59, 24), FromEnd(tendencies_list, 2)[key])),
                            FMul(FRat(37, 24), FromEnd(tendencies_list, 3)[key])),
                       FMul(FRat(3, 8), FromEnd(tendencies_list, 4)[key]))))]

(***************************************************************************)
(* The integrators.  The wrapped components of an integrator are one       *)
(* composite whose call either raises or returns tendencies for "x"; its   *)
(* answer is an input of each call: prog = [raises, kind, val], kind being *)
(* "plain" (no units attached), "same" (a DataArray already in the units   *)
(* of the state per second), "kilo" (a DataArray in a unit 1000 times      *)
(* larger) or "bad" (a DataArray in units of another dimensionality).      *)
(***************************************************************************)
None == 0

Raise(outcome, cause, ts, tl, old, state) ==
    [outcome |-> outcome, cause |-> cause, timestep |-> ts,
     tendencies_list |-> tl, old_state |-> old, state |-> state,
     new_state |-> EmptyDict, order |-> 0, tend |-> EmptyDict,
     unfiltered |-> EmptyDict, influence |-> EmptyDict]

Return(ts, tl, old, state, new_state, order, tend) ==
    [outcome |-> "ok", cause |-> "", timestep |-> ts,
     tendencies_list |-> tl, old_state |-> old, state |-> state,
     new_state |-> new_state, order |-> order, tend |-> tend,
     unfiltered |-> EmptyDict, influence |-> EmptyDict]

\* a variant that takes every call's timestep as the new one
ensure_constant_timestep_overwrite(ts, dt) ==
    [raise |-> FALSE, timestep |-> dt]

\* a variant that records the timestep it refuses
ensure_constant_timestep_recording(ts, dt) ==
    IF ts = None THEN [raise |-> FALSE, timestep |-> dt]
    ELSE IF ts # dt THEN [raise |-> TRUE, timestep |-> dt]
    ELSE [raise |-> FALSE, timestep |-> ts]

\* [raise, timestep]: whether the call is refused, and self._timestep after
ensure_constant_timestep(ts, dt) ==
    IF ts = None THEN [raise |-> FALSE, timestep |-> dt]
    ELSE IF ts # dt THEN [raise |-> TRUE, timestep |-> ts]
    ELSE [raise |-> FALSE, timestep |-> ts]

\* DataArray.to_units on a tendency: the data times the conversion factor
to_units(val, kind) ==
    IF kind = "kilo" THEN FMul(FFromInt(1000), val) ELSE val

\* [err, tend]: the error raised ("" for none) and the tendencies after
convert_tendencies_units_for_state(prog, state) ==
    IF prog.kind = "plain" THEN [err |-> "", tend |-> [q \in {"x"} |-> prog.val]]
    ELSE IF "x" \notin DOMAIN state THEN [err |-> "KeyError", tend |-> EmptyDict]
    ELSE IF prog.kind = "bad" THEN [err |-> "ValueError", tend |-> EmptyDict]
    ELSE [err |-> "", tend |-> [q \in {"x"} |-> to_units(prog.val, prog.kind)]]

perform_step(order, state, tendencies_list, secs) ==
    IF order = 1
    THEN step_forward_euler(state, FromEnd(tendencies_list, 1), secs)
    ELSE IF order = 2 THEN second_bashforth(state, tendencies_list, secs)
    ELSE IF order = 3 THEN third_bashforth(state, tendencies_list, secs)
    ELSE fourth_bashforth(state, tendencies_list, secs)

AdamsBashforth_call(k, ts, tl, state, dt, prog) ==
    LET chk == ensure_constant_timestep(ts, dt)
        cv  == convert_tendencies_units_for_state(prog, state)
        lst == Append(tl, cv.tend)
        ord == Min(k, Len(lst))
    IN  IF chk.raise
        THEN Raise("ValueError", "timestep", chk.timestep, tl, [some |-> FALSE, st |-> EmptyDict], state)
        ELSE IF prog.raises
        THEN Raise("ComponentError", "prognostic", chk.timestep, tl, [some |-> FALSE, st |-> EmptyDict], state)
        ELSE IF cv.err # ""
        THEN Raise(cv.err, "units", chk.timestep, tl, [some |-> FALSE, st |-> EmptyDict], state)
        ELSE IF ~(DOMAIN cv.tend \subseteq DOMAIN state)
        THEN Raise("KeyError", "step", chk.timestep, lst, [some |-> FALSE, st |-> EmptyDict], state)
        ELSE Return(chk.timestep,
                    IF Len(lst) = k THEN Tail(lst) ELSE lst,
                    [some |-> FALSE, st |-> EmptyDict],
                    state,
                    copy_untouched_quantities(
                        state, perform_step(ord, state, lst, total_seconds(dt))),
                    ord, cv.tend)

\* new_state[key] = old_state[key] + 2 * tendencies[key] * seconds
leapfrog_new_state(old_state, tendencies, secs) ==
    [key \in DOMAIN tendencies |->
        FAdd(old_state[key], FMul(FMul(FFromInt(2), tendencies[key]), secs))]

\* a variant that subtracts the current value once
filter_influence_once(old_state, state, new_state, asselin_strength) ==
    [key \in DOMAIN new_state |->
        FMul(FMul(FRat(1, 2), asselin_strength),
             FAdd(FSub(old_state[key], state[key]), new_state[key]))]

\* filter_influence = 0.5 * asselin_strength
\*                        * (old_state[key] - 2 * state[key] + new_state[key])
filter_influence(old_state, state, new_state, asselin_strength) ==
    [key \in DOMAIN new_state |->
        FMul(FMul(FRat(1, 2), asselin_strength),
             FAdd(FSub(old_state[key], FMul(FFromInt(2), state[key])),
                  new_state[key]))]

\* state[key] += alpha * filter_influence, and for alpha != 1.0
\* new_state[key] += (alpha - 1.0) * filter_influence
apply_filter(state, unf, inf, alpha) ==
    [state |-> [key \in DOMAIN state |->
                   IF key \in DOMAIN inf
                   THEN FAdd(state[key], FMul(alpha, inf[key]))
                   ELSE state[key]],
     new_state |-> [key \in DOMAIN unf |->
                   IF alpha # FFromInt(1)
                   THEN FAdd(unf[key],
                             FMul(FSub(alpha, FFromInt(1)), inf[key]))
                   ELSE unf[key]],
     unfiltered |-> unf,
     influence |-> inf]

\* a variant that leaps from the current state, not from the retained one
step_leapfrog_from_current(old_state, state, tendencies, secs, asselin_strength, alpha) ==
    CHOOSE out \in
        {apply_filter(state, unf, [key \in DOMAIN unf |-> FZero], alpha) :
            unf \in {leapfrog_new_state(state, tendencies, secs)}} : TRUE

\* a variant that filters the current state only and with full strength
\* (the filter without the alpha weighting)
step_leapfrog_unweighted(old_state, state, tendencies, secs, asselin_strength, alpha) ==
    CHOOSE out \in
        UNION {{[apply_filter(state, unf, inf, FFromInt(1))
                    EXCEPT !.influence = inf] :
                   inf \in {filter_influence(old_state, state, unf,
                                             asselin_strength)}} :
               unf \in {leapfrog_new_state(old_state, tendencies, secs)}} :
            TRUE

\* [state, new_state, unfiltered, influence]: the current state after the
\* filter, the new state, and the two intermediate values.  (The sets of
\* one element bind each intermediate value once it is computed.)
step_leapfrog(old_state, state, tendencies, secs, asselin_strength, alpha) ==
    CHOOSE out \in
        UNION {{apply_filter(state, unf, inf, alpha) :
                   inf \in {filter_influence(old_state, state, unf,
                                             asselin_strength)}} :
               unf \in {leapfrog_new_state(old_state, tendencies, secs)}} :
            TRUE

\* Leapfrog._call once the tendencies are converted (cv) and the timestep
\* is recorded (ts)
Leapfrog_step(asselin_strength, alpha, ts, old, state, dt, cv) ==
    IF cv.err # ""
    THEN Raise(cv.err, "units", ts, <<>>, old, state)
    ELSE IF ~(DOMAIN cv.tend \subseteq DOMAIN state)
    THEN Raise("KeyError", "step", ts, <<>>, old, state)
    ELSE IF ~old.some
    THEN Return(ts, <<>>, [some |-> TRUE, st |-> state], state,
                copy_untouched_quantities(
                    state,
                    step_forward_euler(state, cv.tend, total_seconds(dt))),
                1, cv.tend)
    ELSE IF ~(DOMAIN cv.tend \subseteq DOMAIN old.st)
    THEN Raise("KeyError", "step", ts, <<>>, old, state)
    ELSE CHOOSE out \in
            {[Return(ts, <<>>, [some |-> TRUE, st |-> lf.state], lf.state,
                     copy_untouched_quantities(lf.state, lf.new_state),
                     2, cv.tend)
                 EXCEPT !.unfiltered = lf.unfiltered,
                        !.influence = lf.influence] :
                lf \in {step_leapfrog(old.st, state, cv.tend,
                                      total_seconds(dt), asselin_strength,
                                      alpha)}} : TRUE

Leapfrog_call(asselin_strength, alpha, ts, old, state, dt, prog) ==
    LET chk == ensure_constant_timestep(ts, dt)
    IN  IF chk.raise
        THEN Raise("ValueError", "timestep", chk.timestep, <<>>, old, state)
        ELSE IF prog.raises
        THEN Raise("ComponentError", "prognostic", chk.timestep, <<>>, old, state)
        ELSE CHOOSE out \in
                {Leapfrog_step(asselin_strength, alpha, chk.timestep, old,
                               state, dt, cv) :
                    cv \in {convert_tendencies_units_for_state(prog, state)}} :
                TRUE

\* TendencyStepper.__call__ around the result r of the scheme's _call
TendencyStepper_call(r) ==
    CHOOSE out \in
        {IF v.outcome = "ok"
         THEN [v EXCEPT !.new_state =
                            copy_untouched_quantities(v.state, v.new_state)]
         ELSE v : v \in {r}} : TRUE

NoOld == [some |-> FALSE, st |-> EmptyDict]

\* self._euler_stepper(state, timestep) after the previous stage's result
\* prev; a stage that raised ends the call
euler_stepper(prev, state, dt, prog) ==
    IF prev.outcome # "ok" THEN prev
    ELSE TendencyStepper_call(
             AdamsBashforth_call(1, prev.timestep, prev.tendencies_list,
                                 state, dt, prog))

\* state_2 of _step_3_stages
state_2_of_3(state, r2) ==
    IF r2.outcome # "ok" THEN EmptyDict
    ELSE add(multiply(FRat(3, 4), state), multiply(FRat(1, 4), r2.new_state))

\* the out_state of _step_2_stages and of _step_3_stages
out_state(stages, state, r2, r3) ==
    IF r2.outcome # "ok" THEN [r2 EXCEPT !.state = state]
    ELSE IF stages = 2
    THEN Return(r2.timestep, r2.tendencies_list, NoOld, state,
                multiply(FRat(1, 2), add(state, r2.new_state)), 1, r2.tend)
    ELSE IF r3.outcome # "ok" THEN [r3 EXCEPT !.state = state]
    ELSE Return(r3.timestep, r3.tendencies_list, NoOld, state,
                add(multiply(FRat(1, 3), state),
                    multiply(FRat(2, 3), r3.new_state)),
                1, r3.tend)

\* SSPRungeKutta._call: progs[i] is the composite's answer in the i-th stage
SSPRungeKutta_call(stages, ts, tl, state, dt, progs) ==
    CHOOSE out \in
        UNION {UNION {UNION {
            {out_state(stages, state, r2, r3) :
                r3 \in {IF stages = 2 THEN r2
                        ELSE euler_stepper(r2, state_2, dt, progs[3])}} :
            state_2 \in {state_2_of_3(state, r2)}} :
            r2 \in {euler_stepper(r1, r1.new_state, dt, progs[2])}} :
            r1 \in {euler_stepper(Return(ts, tl, NoOld, state, state, 0,
                                         EmptyDict),
                                  state, dt, progs[1])}} : TRUE

(***************************************************************************)
(* Component calls.  A property dict is a sequence (Python dicts keep      *)
(* insertion order) of [name, dims, alias], alias "" meaning none; the     *)
(* declared dims of inputs hold no wildcard.  A state maps quantity names  *)
(* to                                                                      *)
(* labelled arrays [dims, shape, units], "time" being always present; the  *)
(* raw output of a kernel is a sequence of [key, shape] with distinct      *)
(* keys.  Array contents play no part in the checks and are left out.      *)
(***************************************************************************)
Range(seq) == {seq[i] : i \in 1..Len(seq)}

\* the number of elements of an array of a shape
RECURSIVE Product(_)
Product(shape) ==
    IF Len(shape) = 0 THEN 1 ELSE Head(shape) * Product(Tail(shape))

\* the first place of an entry in a list, from 1 (list.index)
IndexOf(seq, e) ==
    CHOOSE i \in 1..Len(seq) : seq[i] = e /\ \A j \in 1..(i - 1) : seq[j] # e

\* the orders in which the elements of a set can be listed
Orderings(S) ==
    {seq \in [1..Cardinality(S) -> S] : Range(seq) = S}

Names(props) == {props[i].name : i \in 1..Len(props)}

NameSeq(props) == [i \in 1..Len(props) |-> props[i].name]

PropOf(props, name) == props[CHOOSE i \in 1..Len(props) : props[i].name = name]

Keys(raw) == {raw[i].key : i \in 1..Len(raw)}

ItemOf(raw, key) == raw[CHOOSE i \in 1..Len(raw) : raw[i].key = key]

\* StaticComponentOperator.get_aliases: the own alias, else the alias of
\* the input of the same name
get_aliases(props, input_properties) ==
    [name \in {n \in Names(props) :
                  \/ PropOf(props, n).alias # ""
                  \/ /\ n \in Names(input_properties)
                     /\ PropOf(input_properties, n).alias # ""} |->
        IF PropOf(props, name).alias # "" THEN PropOf(props, name).alias
        ELSE PropOf(input_properties, name).alias]

\* self.aliases.get(name): "" stands for None, which is no key of any dict
AliasGet(aliases, name) == IF name \in DOMAIN aliases THEN aliases[name] ELSE ""

\* DynamicComponentOperator.get_field on a set of keys: the key under which
\* the field is found, "" for None
get_field_key(name, aliases, keys) ==
    IF name \in keys THEN name
    ELSE IF name \in DOMAIN aliases /\ aliases[name] \in keys THEN aliases[name]
    ELSE ""

RECURSIVE check_missing_fields_from(_, _, _, _)
check_missing_fields_from(props, aliases, keys, i) ==
    IF i > Len(props) THEN ""
    ELSE IF props[i].name \notin keys /\ AliasGet(aliases, props[i].name) \notin keys
    THEN props[i].name
    ELSE check_missing_fields_from(props, aliases, keys, i + 1)

\* DynamicComponentChecker.check_missing_fields: the quantity the
\* InvalidArrayDictError names, "" when nothing is raised
check_missing_fields(props, aliases, keys) ==
    check_missing_fields_from(props, aliases, keys, 1)

\* the position of the key name in a property dict
NameIndex(props, name) == CHOOSE i \in 1..Len(props) : props[i].name = name

\* the declared dims with every "*" replaced by wildcard_dims
RECURSIVE replace_wildcard(_, _)
replace_wildcard(dims, wildcard_dims) ==
    IF dims = <<>> THEN <<>>
    ELSE (IF Head(dims) = "*" THEN wildcard_dims ELSE <<Head(dims)>>)
             \o replace_wildcard(Tail(dims), wildcard_dims)

\* DynamicComponentOperator.get_wildcard_dims for a field found under key:
\* the dimensions of the field that are not declared
get_wildcard_dims(dims, field) ==
    SelectSeq(field.dims, LAMBDA dim : dim \notin Range(dims))

\* DynamicComponentOperator.get_target_dims(dataarray_dict), the second
\* dict being None: [err, dims], dims mapping each declared name to its
\* target dimensions.  For a quantity declared with "*" that get_field does
\* not find, get_wildcard_dims reads field.dims of None: AttributeError.
get_target_dims(props, aliases, state) ==
    LET key(n) == get_field_key(n, aliases, DOMAIN state)
        wild(n) == "*" \in Range(PropOf(props, n).dims)
    IN  IF \E n \in Names(props) : wild(n) /\ key(n) = ""
        THEN [err |-> "AttributeError", dims |-> <<>>]
        ELSE [err |-> "",
              dims |-> [n \in Names(props) |->
                          IF wild(n)
                          THEN replace_wildcard(
                                   PropOf(props, n).dims,
                                   get_wildcard_dims(PropOf(props, n).dims,
                                                     state[key(n)]))
                          ELSE PropOf(props, n).dims]]

\* the names of the input properties whose field is in the state
FoundInputs(input_properties, aliases, state) ==
    {n \in Names(input_properties) :
        get_field_key(n, aliases, DOMAIN state) # ""}

\* InflowComponentChecker.check_actual_dims: some field found in the state
\* has not exactly the declared dimensions.  (For a declared quantity that
\* is absent, actual_dims[name] is a KeyError; check_missing_fields runs
\* first.)
check_actual_dims(input_properties, aliases, state) ==
    \E t \in {get_target_dims(input_properties, aliases, state)} :
        /\ t.err = ""
        /\ \E n \in FoundInputs(input_properties, aliases, state) :
              Range(state[get_field_key(n, aliases, DOMAIN state)].dims)
                  # Range(t.dims[n])

\* DynamicComponentOperator.get_dim_lengths: dimension -> set of lengths,
\* over the fields of props found in the dict
get_dim_lengths(props, aliases, state) ==
    LET found == {get_field_key(n, aliases, DOMAIN state) : n \in Names(props)}
                     \ {""}
        dimsOf == UNION {Range(state[k].dims) : k \in found}
    IN  [dim \in dimsOf |->
            {state[p[1]].shape[p[2]] : p \in
                {q \in UNION {{<<k, i>> : i \in 1..Len(state[k].dims)} :
                                 k \in found} :
                    state[q[1]].dims[q[2]] = dim}}]

\* InflowComponentChecker.check_dim_lengths: a dimension has two lengths.
\* The message is built with ', '.join over a set of ints, so what is
\* raised is TypeError.
check_dim_lengths(input_properties, aliases, state) ==
    LET dl == get_dim_lengths(input_properties, aliases, state)
    IN  \E dim \in DOMAIN dl : Cardinality(dl[dim]) # 1

\* the shape of an array [dims, shape] after transpose(*target)
Transposed(field, target) ==
    [i \in 1..Len(target) |->
        field.shape[CHOOSE j \in 1..Len(field.dims) : field.dims[j] = target[i]]]

\* InflowComponentOperator.get_ndarray_dict: [err, msg, raw]; the target
\* dims are computed first, then the fields found are stored in the order
\* of the declaration, transposed to the target order, under alias or
\* name: of two properties with one alias the later one stays; transpose
\* raises ValueError for a target that is no reordering of the field's dims
get_ndarray_dict(input_properties, aliases, state) ==
    LET found == FoundInputs(input_properties, aliases, state)
        field(n) == state[get_field_key(n, aliases, DOMAIN state)]
        out_name(n) == IF PropOf(input_properties, n).alias # ""
                       THEN PropOf(input_properties, n).alias ELSE n
        last(k) == CHOOSE m \in found :
                       /\ out_name(m) = k
                       /\ \A o \in found :
                             out_name(o) = k =>
                                 NameIndex(input_properties, o)
                                     <= NameIndex(input_properties, m)
    IN  CHOOSE out \in
        {IF t.err # "" THEN [err |-> t.err, msg |-> "dims", raw |-> <<>>]
         ELSE LET asis(n) ==
                      \A i \in 1..Min(Len(field(n).dims), Len(t.dims[n])) :
                          field(n).dims[i] = t.dims[n][i]
              IN  IF \E n \in found :
                         /\ ~asis(n)
                         /\ \/ Range(field(n).dims) # Range(t.dims[n])
                            \/ Len(field(n).dims) # Len(t.dims[n])
                  THEN [err |-> "ValueError", msg |-> "transpose", raw |-> <<>>]
                  ELSE [err |-> "", msg |-> "",
                        raw |-> [k \in {out_name(n) : n \in found} |->
                                    IF asis(last(k)) THEN field(last(k)).shape
                                    ELSE Transposed(field(last(k)),
                                                    t.dims[last(k)])]] :
         t \in {get_target_dims(input_properties, aliases, state)}} : TRUE

\* the outcome of a check or of a marshalling step: the class of the error
\* raised ("" for none), which of the function's raise statements it is,
\* and the quantities its message names
Passed == [err |-> "", msg |-> "", names |-> {}]

Raised(err, msg, names) == [err |-> err, msg |-> msg, names |-> names]

\* InflowComponentChecker.check
InflowComponentChecker_check(input_properties, aliases, state) ==
    LET missing == check_missing_fields(input_properties, aliases, DOMAIN state)
    IN  IF missing # ""
        THEN Raised("InvalidArrayDictError", "missing", {missing})
        ELSE IF check_actual_dims(input_properties, aliases, state)
        THEN Raised("InvalidDataArrayDictError", "dims", {})
        ELSE IF check_dim_lengths(input_properties, aliases, state)
        THEN Raised("TypeError", "join", {})
        ELSE Passed

RECURSIVE check_extra_fields_from(_, _, _, _)
check_extra_fields_from(props, aliases, raw, i) ==
    IF i > Len(raw) THEN ""
    ELSE IF /\ raw[i].key \notin Names(props)
            /\ raw[i].key \notin {aliases[n] : n \in DOMAIN aliases}
    THEN raw[i].key
    ELSE check_extra_fields_from(props, aliases, raw, i + 1)

\* OutflowComponentChecker.check_extra_fields
check_extra_fields(props, aliases, raw) ==
    LET extra == check_extra_fields_from(props, aliases, raw, 1)
    IN  IF extra # ""
        THEN Raised("InvalidNDArrayLikeDictError", "undeclared", {extra})
        ELSE IF Len(raw) > Len(props)
        THEN Raised("InvalidNDArrayLikeDictError", "length", {})
        ELSE Passed

\* the values dim_lengths holds in check_shape: the sets get_dim_lengths
\* returns and the ints the loop stores; a set never equals an int
SetLen(lengths) == [isset |-> TRUE, set |-> lengths, int |-> 0]

IntLen(n) == [isset |-> FALSE, set |-> {}, int |-> n]

\* the inner loop of check_shape, from axis idx (counted from 1): it
\* enumerates target_dims.keys(), the names of the declared quantities
RECURSIVE check_shape_axes(_, _, _, _)
check_shape_axes(keys, shape, idx, dim_lengths) ==
    IF idx > Len(keys) THEN [err |-> "", dim_lengths |-> dim_lengths]
    ELSE IF idx > Len(shape) THEN [err |-> "IndexError", dim_lengths |-> dim_lengths]
    ELSE IF keys[idx] \notin DOMAIN dim_lengths
    THEN check_shape_axes(keys, shape, idx + 1,
             [d \in DOMAIN dim_lengths \cup {keys[idx]} |->
                 IF d = keys[idx] THEN IntLen(shape[idx]) ELSE dim_lengths[d]])
    ELSE IF dim_lengths[keys[idx]] # IntLen(shape[idx])
    THEN [err |-> "InvalidNDArrayLikeDictError", dim_lengths |-> dim_lengths]
    ELSE check_shape_axes(keys, shape, idx + 1, dim_lengths)

\* the outer loop of check_shape, from the i-th declared quantity
RECURSIVE check_shape_from(_, _, _, _, _, _)
check_shape_from(props, aliases, raw, i, dim_lengths, target_dims) ==
    IF i > Len(props) THEN Passed
    ELSE LET name == props[i].name
             shape == ItemOf(raw, get_field_key(name, aliases, Keys(raw))).shape
         IN  IF Len(shape) # Len(target_dims[name])
             THEN Raised("InvalidNDArrayLikeDictError", "rank", {name})
             ELSE CHOOSE out \in
                 {IF r.err = "IndexError" THEN Raised("IndexError", "axis", {name})
                  ELSE IF r.err # ""
                  THEN Raised("InvalidNDArrayLikeDictError", "shape", {name})
                  ELSE check_shape_from(props, aliases, raw, i + 1, r.dim_lengths,
                                        target_dims) :
                  r \in {check_shape_axes(NameSeq(props), shape, 1, dim_lengths)}} :
                 TRUE

\* OutflowComponentChecker.check_shape
check_shape(props, aliases, raw, state) ==
    LET dl == get_dim_lengths(props, aliases, state)
    IN  CHOOSE out \in
        {IF t.err # "" THEN Raised(t.err, "dims", {})
         ELSE check_shape_from(props, aliases, raw, 1,
                               [d \in DOMAIN dl |-> SetLen(dl[d])], t.dims) :
         t \in {get_target_dims(props, aliases, state)}} : TRUE

\* OutflowComponentChecker.check
OutflowComponentChecker_check(props, aliases, raw, state) ==
    LET missing == check_missing_fields(props, aliases, Keys(raw))
    IN  IF missing # ""
        THEN Raised("InvalidArrayDictError", "missing", {missing})
        ELSE IF check_extra_fields(props, aliases, raw).err # ""
        THEN check_extra_fields(props, aliases, raw)
        ELSE check_shape(props, aliases, raw, state)

\* OutflowComponentOperator.get_dataarray_dict(ndarray_dict, state): [err,
\* msg, out]; the target dims are computed from the state first; DataArray()
\* raises ValueError when handed as many dims as the array has not axes; of
\* two properties with one alias the later one stays
get_dataarray_dict(props, aliases, raw, state) ==
    LET found == {n \in Names(props) : get_field_key(n, aliases, Keys(raw)) # ""}
        data(n) == ItemOf(raw, get_field_key(n, aliases, Keys(raw))).shape
        raw_name(n) == IF PropOf(props, n).alias # "" THEN PropOf(props, n).alias
                       ELSE n
        last(k) == CHOOSE m \in found :
                       /\ raw_name(m) = k
                       /\ \A o \in found :
                             raw_name(o) = k =>
                                 NameIndex(props, o) <= NameIndex(props, m)
    IN  CHOOSE out \in
        {IF t.err # "" THEN [err |-> t.err, msg |-> "dims", out |-> <<>>]
         ELSE IF \E n \in found : Len(data(n)) # Len(t.dims[n])
         THEN [err |-> "ValueError", msg |-> "wrap", out |-> <<>>]
         ELSE [err |-> "", msg |-> "",
               out |-> [k \in {raw_name(n) : n \in found} |->
                           [dims |-> t.dims[last(k)],
                            shape |-> data(last(k)),
                            units |-> PropOf(props, last(k)).units]]] :
         t \in {get_target_dims(props, aliases, state)}} : TRUE

\* InputChecker.check_inputs: the quantity the InvalidStateError names, ""
\* when nothing is raised; only names are looked up, aliases are not
RECURSIVE check_inputs_from(_, _, _)
check_inputs_from(input_properties, state, i) ==
    IF i > Len(input_properties) THEN ""
    ELSE IF input_properties[i].name \notin DOMAIN state
    THEN input_properties[i].name
    ELSE check_inputs_from(input_properties, state, i + 1)

check_inputs(input_properties, state) == check_inputs_from(input_properties, state, 1)

\* get_wildcard_names_and_dim_lengths from the i-th property on: [err, msg,
\* names, dim_lengths], dim_lengths keeping the first length seen of each
\* dimension
RECURSIVE get_wildcard_names_and_dim_lengths_from(_, _, _, _, _)
get_wildcard_names_and_dim_lengths_from(state, props, enable_checks, i, dim_lengths) ==
    IF i > Len(props)
    THEN [err |-> "", msg |-> "", names |-> {}, dim_lengths |-> dim_lengths]
    ELSE IF props[i].name \notin DOMAIN state
    THEN [err |-> "KeyError", msg |-> "state", names |-> {props[i].name},
          dim_lengths |-> dim_lengths]
    ELSE LET field == state[props[i].name]
             axes == 1..Len(field.dims)
         IN  IF \E j \in axes : /\ field.dims[j] \in DOMAIN dim_lengths
                                /\ dim_lengths[field.dims[j]] # field.shape[j]
             THEN [err |-> "InvalidStateError", msg |-> "conflicting",
                   names |-> {props[i].name}, dim_lengths |-> dim_lengths]
             ELSE IF /\ enable_checks
                     /\ ~(Range(field.dims) \subseteq Range(props[i].dims))
                     /\ "*" \notin Range(props[i].dims)
             THEN [err |-> "InvalidStateError", msg |-> "unexpected",
                   names |-> {props[i].name}, dim_lengths |-> dim_lengths]
             ELSE get_wildcard_names_and_dim_lengths_from(state, props,
                      enable_checks, i + 1,
                      [d \in DOMAIN dim_lengths \cup Range(field.dims) |->
                          IF d \in DOMAIN dim_lengths THEN dim_lengths[d]
                          ELSE field.shape[CHOOSE j \in axes : field.dims[j] = d]])

\* the set wildcard_names is at the end of the loop: the dimensions of the
\* declared quantities that their declarations do not name
wildcard_names_set(state, props) ==
    UNION {Range(state[props[i].name].dims) \ Range(props[i].dims) :
              i \in 1..Len(props)}

\* tuple(wildcard_names) of a set: its elements in the order in which the
\* set iterates.  That order is the one of the set's hash table, which the
\* hash seed of the process decides: set_order lists the dimension names
\* in the order the sets of this process yield them.
tuple_of_set(names, set_order) ==
    SelectSeq(set_order, LAMBDA d : d \in names)

\* the orders in which the sets of a process can yield the dimensions a
\* state has beyond the declared ones
SetOrders(state, props) ==
    Orderings(UNION {IF props[i].name \in DOMAIN state
                     THEN Range(state[props[i].name].dims) \ Range(props[i].dims)
                     ELSE {} : i \in 1..Len(props)})

\* get_wildcard_names_and_dim_lengths: [err, msg, names, dim_lengths,
\* wildcard_names]; wildcard_names is tuple(set), <<>> standing for the
\* None returned for the empty set
get_wildcard_names_and_dim_lengths(state, props, enable_checks, set_order) ==
    CHOOSE out \in
        {IF r.err # "" THEN r @@ [wildcard_names |-> <<>>]
         ELSE r @@ [wildcard_names |->
                       tuple_of_set(wildcard_names_set(state, props), set_order)] :
         r \in {get_wildcard_names_and_dim_lengths_from(state, props,
                                                         enable_checks, 1, <<>>)}} :
        TRUE

\* the dimensionality the unit registry gives the units the model's
\* quantities and declarations carry
dimensionality(unit) ==
    IF unit \in {"m", "km"} THEN "[length]"
    ELSE IF unit = "s" THEN "[time]"
    ELSE IF unit \in {"m s^-1", "km s^-1"} THEN "[length] / [time]"
    ELSE IF unit = "s s^-1" THEN ""
    ELSE unit

\* units_are_compatible: the first unit can be converted to the second
units_are_compatible(unit1, unit2) ==
    dimensionality(unit1) = dimensionality(unit2)

\* numpy's out_array[:] = array: leading axes of length 1 are dropped and
\* the rest is matched against the target from the right
BroadcastsTo(shape, out_shape) ==
    LET lead == CHOOSE k \in 0..Len(shape) :
                    /\ \A j \in 1..k : shape[j] = 1
                    /\ k = Len(shape) \/ shape[k + 1] # 1
        rest == SubSeq(shape, lead + 1, Len(shape))
        off == Len(out_shape) - Len(rest)
    IN  /\ off >= 0
        /\ \A j \in 1..Len(rest) : rest[j] = 1 \/ rest[j] = out_shape[off + j]

\* get_array: [err, shape] of the array handed to the kernel; dims absent
\* from the quantity are put in front with length 1, the array is
\* transposed to out_dims and the absent dims are filled from dim_lengths;
\* expand_dims refuses a dimension the array already has and transpose a
\* list that is no reordering of its dimensions, both with ValueError
get_array(field, out_dims, dim_lengths) ==
    LET missing_dims == SelectSeq(out_dims, LAMBDA d : d \notin Range(field.dims))
        expanded == [dims |-> [j \in 1..Len(missing_dims) |->
                                  missing_dims[Len(missing_dims) + 1 - j]]
                              \o field.dims,
                     shape |-> [j \in 1..Len(missing_dims) |-> 1] \o field.shape]
        asis == \A j \in 1..Min(Len(expanded.dims), Len(out_dims)) :
                    expanded.dims[j] = out_dims[j]
        out_shape == [j \in 1..Len(out_dims) |->
                         IF out_dims[j] \in DOMAIN dim_lengths
                         THEN dim_lengths[out_dims[j]] ELSE 1]
    IN  IF Len(field.shape) = 0 /\ Len(out_dims) = 0
        THEN [err |-> "", shape |-> field.shape]
        ELSE IF \E p, q \in 1..Len(missing_dims) :
                    p # q /\ missing_dims[p] = missing_dims[q]
        THEN [err |-> "ValueError", shape |-> <<>>]
        ELSE IF ~asis /\ (\/ Range(expanded.dims) # Range(out_dims)
                          \/ Len(expanded.dims) # Len(out_dims))
        THEN [err |-> "ValueError", shape |-> <<>>]
        ELSE LET array == IF asis THEN expanded.shape
                          ELSE Transposed(expanded, out_dims)
             IN  IF Len(missing_dims) = 0 \/ out_shape = array
                 THEN [err |-> "", shape |-> array]
                 ELSE IF BroadcastsTo(array, out_shape)
                 THEN [err |-> "", shape |-> out_shape]
                 ELSE [err |-> "ValueError", shape |-> <<>>]

\* flatten_wildcard_dims of storage.py on the shape of the array, for
\* 0 <= i_start < i_end: [err, shape].  Without the checks an i_end beyond
\* the last axis leaves the flattened axis out of the target shape, and
\* reshape raises unless the target holds every element.
storage_flatten_wildcard_dims(shape, i_start, i_end, enable_checks) ==
    LET kept == SelectSeq([j \in 1..Len(shape) |-> j],
                          LAMBDA j : ~(i_start < j /\ j <= i_end))
        before == SelectSeq(kept, LAMBDA j : j <= i_start)
        after == SelectSeq(kept, LAMBDA j : j > i_end)
        wildcard_length == Product(SubSeq(shape, i_start + 1,
                                          Min(i_end, Len(shape))))
        target_shape == [j \in 1..Len(before) |-> shape[before[j]]]
                        \o (IF i_end <= Len(shape) THEN <<wildcard_length>>
                            ELSE <<>>)
                        \o [j \in 1..Len(after) |-> shape[after[j]]]
    IN  IF enable_checks /\ i_end > Len(shape)
        THEN [err |-> "ValueError", shape |-> <<>>]
        ELSE IF Product(target_shape) # Product(shape)
        THEN [err |-> "ValueError", shape |-> <<>>]
        ELSE [err |-> "", shape |-> target_shape]

\* the loop of get_arrays_with_properties from the i-th property on; a
\* "*" in the dims is replaced by wildcard_names, a TypeError when that is
\* None, and the axes it stands for are flattened to one
RECURSIVE get_arrays_with_properties_from(_, _, _, _, _, _, _)
get_arrays_with_properties_from(state, props, wildcard_names, dim_lengths, enable_checks, i, out_dict) ==
    IF i > Len(props) THEN [err |-> "", msg |-> "", names |-> {}, raw |-> out_dict]
    ELSE LET name == props[i].name
             out_name == IF props[i].alias # "" THEN props[i].alias ELSE name
             has_wildcard == "*" \in Range(props[i].dims)
             i_wildcard == IF has_wildcard THEN IndexOf(props[i].dims, "*") - 1
                           ELSE 0
             out_dims == IF has_wildcard
                         THEN SubSeq(props[i].dims, 1, i_wildcard)
                              \o wildcard_names
                              \o SubSeq(props[i].dims, i_wildcard + 2,
                                        Len(props[i].dims))
                         ELSE props[i].dims
             Fail(err, msg) == [err |-> err, msg |-> msg, names |-> {name},
                                raw |-> <<>>]
         IN  IF ~units_are_compatible(state[name].units, props[i].units)
             THEN Fail("InvalidStateError", "units")
             ELSE IF has_wildcard /\ wildcard_names = <<>>
             THEN Fail("TypeError", "wildcard")
             ELSE CHOOSE out \in UNION {
                 IF r.err # "" THEN {Fail(r.err, "array")}
                 ELSE {IF f.err # "" THEN Fail(f.err, "flatten")
                       ELSE get_arrays_with_properties_from(state, props,
                                wildcard_names, dim_lengths, enable_checks, i + 1,
                                [k \in DOMAIN out_dict \cup {out_name} |->
                                    IF k = out_name THEN f.shape ELSE out_dict[k]]) :
                       f \in {IF has_wildcard
                              THEN storage_flatten_wildcard_dims(
                                       r.shape, i_wildcard,
                                       i_wildcard + Len(wildcard_names),
                                       enable_checks)
                              ELSE [err |-> "", shape |-> r.shape]}} :
                 r \in {get_array(state[name], out_dims, dim_lengths)}} : TRUE

\* get_arrays_with_properties: [err, msg, names, raw]
get_arrays_with_properties(state, props, enable_checks, set_order) ==
    LET w == get_wildcard_names_and_dim_lengths(state, props, enable_checks,
                                                set_order)
    IN  IF w.err # ""
        THEN [err |-> w.err, msg |-> w.msg, names |-> w.names, raw |-> <<>>]
        ELSE get_arrays_with_properties_from(state, props, w.wildcard_names,
                                             w.dim_lengths, enable_checks, 1, <<>>)

\* OutputChecker._wanted_output_aliases and
\* DiagnosticChecker._wanted_diagnostic_aliases: the own alias and the alias
\* of the input of the same name
wanted_aliases(props, input_properties) ==
    [name \in Names(props) |->
        (IF PropOf(props, name).alias # "" THEN {PropOf(props, name).alias}
         ELSE {})
        \cup (IF /\ name \in Names(input_properties)
                 /\ PropOf(input_properties, name).alias # ""
              THEN {PropOf(input_properties, name).alias} ELSE {})]

\* the set gathered by _check_missing_outputs and _check_missing_diagnostics
\* (no diagnostic is ignored)
missing_outputs(props, input_properties, raw) ==
    {name \in Names(props) :
        /\ name \notin Keys(raw)
        /\ wanted_aliases(props, input_properties)[name] \cap Keys(raw) = {}}

\* the set gathered by _check_extra_outputs and _check_extra_diagnostics
extra_outputs(props, input_properties, raw) ==
    Keys(raw) \ (Names(props)
                    \cup UNION {wanted_aliases(props, input_properties)[n] :
                                   n \in Names(props)})

\* OutputChecker.check_outputs
check_outputs(output_properties, input_properties, raw) ==
    IF missing_outputs(output_properties, input_properties, raw) # {}
    THEN Raised("ComponentMissingOutputError", "missing",
                missing_outputs(output_properties, input_properties, raw))
    ELSE IF extra_outputs(output_properties, input_properties, raw) # {}
    THEN Raised("ComponentExtraOutputError", "undeclared",
                extra_outputs(output_properties, input_properties, raw))
    ELSE Passed

\* DiagnosticChecker.check_diagnostics
check_diagnostics(diagnostic_properties, input_properties, raw) ==
    IF missing_outputs(diagnostic_properties, input_properties, raw) # {}
    THEN Raised("ComponentMissingOutputError", "missing",
                missing_outputs(diagnostic_properties, input_properties, raw))
    ELSE IF extra_outputs(diagnostic_properties, input_properties, raw) # {}
    THEN Raised("ComponentExtraOutputError", "undeclared",
                extra_outputs(diagnostic_properties, input_properties, raw))
    ELSE Passed

\* get_alias_or_name
get_alias_or_name(name, output_properties, input_properties) ==
    IF PropOf(output_properties, name).alias # ""
    THEN PropOf(output_properties, name).alias
    ELSE IF /\ name \in Names(input_properties)
            /\ PropOf(input_properties, name).alias # ""
    THEN PropOf(input_properties, name).alias
    ELSE name

\* check_array_shape: which of its two raise statements is reached, "" for
\* neither
check_array_shape(out_dims, shape, dim_lengths) ==
    IF Len(out_dims) # Len(shape) THEN "rank"
    ELSE IF \E j \in 1..Len(out_dims) :
                /\ out_dims[j] \in DOMAIN dim_lengths
                /\ dim_lengths[out_dims[j]] # shape[j]
    THEN "shape"
    ELSE ""

\* the loop over zip(out_dims, raw_arrays[raw_name].shape) from the j-th
\* pair on: a dimension without a length gets the length of the axis at
\* its place in out_dims
RECURSIVE record_dim_lengths(_, _, _, _)
record_dim_lengths(out_dims, shape, j, dim_lengths) ==
    IF j > Min(Len(out_dims), Len(shape)) THEN dim_lengths
    ELSE record_dim_lengths(out_dims, shape, j + 1,
             IF out_dims[j] \notin DOMAIN dim_lengths /\ out_dims[j] # "*"
             THEN [d \in DOMAIN dim_lengths \cup {out_dims[j]} |->
                      IF d = out_dims[j] THEN shape[j] ELSE dim_lengths[d]]
             ELSE dim_lengths)

\* fill_dims_wildcard of dims.py with expand_wildcard=True: [err, dims,
\* shape]; out_dims is walked from the left, so a dimension without a
\* length before the wildcard is a KeyError, wildcard_names being None a
\* TypeError at the wildcard, and a second "*" a KeyError
dims_fill_dims_wildcard(out_dims, dim_lengths, wildcard_names) ==
    LET i_wildcard == IndexOf(out_dims, "*")
        before == SubSeq(out_dims, 1, i_wildcard - 1)
        after == SubSeq(out_dims, i_wildcard + 1, Len(out_dims))
        dims == before \o wildcard_names \o after
    IN  IF ~(Range(before) \subseteq DOMAIN dim_lengths)
        THEN [err |-> "KeyError", dims |-> <<>>, shape |-> <<>>]
        ELSE IF wildcard_names = <<>>
        THEN [err |-> "TypeError", dims |-> <<>>, shape |-> <<>>]
        ELSE IF ~(Range(dims) \subseteq DOMAIN dim_lengths)
        THEN [err |-> "KeyError", dims |-> <<>>, shape |-> <<>>]
        ELSE [err |-> "", dims |-> dims,
              shape |-> [j \in 1..Len(dims) |-> dim_lengths[dims[j]]]]

\* expand_wildcard_dims: array.reshape(target_shape) fails unless the
\* target holds as many elements as the array
expand_wildcard_dims(shape, target_shape) ==
    IF Product(shape) = Product(target_shape) THEN ""
    ELSE "InvalidPropertyDictError"

\* the loop of restore_data_arrays_with_properties from the i-th property
RECURSIVE restore_data_arrays_from(_, _, _, _, _, _, _, _)
restore_data_arrays_from(raw, props, input_properties, wildcard_names, dim_lengths, enable_checks, i, out_dict) ==
    IF i > Len(props) THEN [err |-> "", msg |-> "", names |-> {}, out |-> out_dict]
    ELSE LET name == props[i].name
             raw_name == get_alias_or_name(name, props, input_properties)
             Fail(err, msg) == [err |-> err, msg |-> msg, names |-> {name},
                                out |-> <<>>]
         IN  IF raw_name \notin Keys(raw) THEN Fail("KeyError", "raw")
             ELSE IF "*" \in Range(props[i].dims)
             THEN CHOOSE out \in UNION {
                      {IF f.err # "" THEN Fail(f.err, "fill_dims_wildcard")
                       ELSE IF expand_wildcard_dims(ItemOf(raw, raw_name).shape,
                                                    f.shape) # ""
                       THEN Fail("InvalidPropertyDictError", "expand_wildcard_dims")
                       ELSE restore_data_arrays_from(raw, props, input_properties,
                                wildcard_names, dl, enable_checks, i + 1,
                                [k \in DOMAIN out_dict \cup {name} |->
                                    IF k = name
                                    THEN [dims |-> f.dims, shape |-> f.shape,
                                          units |-> props[i].units]
                                    ELSE out_dict[k]]) :
                       f \in {dims_fill_dims_wildcard(props[i].dims, dl,
                                                      wildcard_names)}} :
                      dl \in {record_dim_lengths(props[i].dims,
                                                 ItemOf(raw, raw_name).shape, 1,
                                                 dim_lengths)}} : TRUE
             ELSE IF /\ enable_checks
                     /\ check_array_shape(props[i].dims, ItemOf(raw, raw_name).shape,
                                          dim_lengths) # ""
             THEN Fail("InvalidPropertyDictError",
                       check_array_shape(props[i].dims,
                                         ItemOf(raw, raw_name).shape, dim_lengths))
             ELSE IF Len(ItemOf(raw, raw_name).shape) # Len(props[i].dims)
             THEN Fail("ValueError", "wrap")
             ELSE restore_data_arrays_from(raw, props, input_properties,
                      wildcard_names, dim_lengths, enable_checks, i + 1,
                      [k \in DOMAIN out_dict \cup {name} |->
                          IF k = name
                          THEN [dims |-> props[i].dims,
                                shape |-> ItemOf(raw, raw_name).shape,
                                units |-> props[i].units]
                          ELSE out_dict[k]])

\* restore_data_arrays_with_properties: [err, msg, names, out]
restore_data_arrays_with_properties(raw, output_properties, input_state, input_properties, enable_checks, set_order) ==
    CHOOSE out \in
        {IF w.err # ""
         THEN [err |-> w.err, msg |-> w.msg, names |-> w.names, out |-> <<>>]
         ELSE restore_data_arrays_from(raw, output_properties, input_properties,
                                       w.wildcard_names, w.dim_lengths,
                                       enable_checks, 1, <<>>) :
         w \in {get_wildcard_names_and_dim_lengths(input_state, input_properties,
                                                    enable_checks, set_order)}} :
        TRUE

\* what a component call raised or returned, with the phases it entered, in
\* order, and the raw state handed to the kernel
CompRaise(r, trace, raw_state) ==
    [outcome |-> r.err, msg |-> r.msg, names |-> r.names, trace |-> trace,
     raw_state |-> raw_state, tendencies |-> <<>>, diagnostics |-> <<>>,
     new_state |-> <<>>]

CompReturn(trace, raw_state, tendencies, diagnostics, new_state) ==
    [outcome |-> "ok", msg |-> "", names |-> {}, trace |-> trace,
     raw_state |-> raw_state, tendencies |-> tendencies,
     diagnostics |-> diagnostics, new_state |-> new_state]

KernelRaised == Raised("KernelError", "array_call", {})

\* DiagnosticComponent.__call__ from the extraction of the raw state on;
\* trace holds the phases entered before
DiagnosticComponent_compute(comp, state, kernel, trace) ==
    LET in_aliases == get_aliases(comp.input_properties, comp.input_properties)
        aliases == get_aliases(comp.diagnostic_properties, comp.input_properties)
        t2 == trace \o <<"marshal_inflow">>
        t3 == t2 \o <<"array_call">>
        t4 == IF comp.enable_checks THEN t3 \o <<"check_outflow">> ELSE t3
        t5 == t4 \o <<"marshal_outflow">>
    IN  CHOOSE out \in UNION {
            IF m.err # "" THEN {CompRaise(Raised(m.err, m.msg, {}), t2, <<>>)}
            ELSE IF kernel.raises THEN {CompRaise(KernelRaised, t3, m.raw)}
            ELSE {IF c.err # "" THEN CompRaise(c, t4, m.raw)
                  ELSE IF g.err # ""
                  THEN CompRaise(Raised(g.err, g.msg, {}), t5, m.raw)
                  ELSE CompReturn(t5, m.raw, <<>>, g.out, <<>>) :
                  c \in {IF comp.enable_checks
                         THEN OutflowComponentChecker_check(
                                  comp.diagnostic_properties, aliases,
                                  kernel.diagnostics, state)
                         ELSE Passed},
                  g \in {get_dataarray_dict(comp.diagnostic_properties, aliases,
                                            kernel.diagnostics, state)}} :
            m \in {get_ndarray_dict(comp.input_properties, in_aliases, state)}} :
        TRUE

\* DiagnosticComponent.__call__ of sympl._core.core_components
DiagnosticComponent_call(comp, state, kernel) ==
    LET in_aliases == get_aliases(comp.input_properties, comp.input_properties)
    IN  IF ~comp.enable_checks
        THEN DiagnosticComponent_compute(comp, state, kernel, <<>>)
        ELSE CHOOSE out \in
            {IF c.err # "" THEN CompRaise(c, <<"check_inflow">>, <<>>)
             ELSE DiagnosticComponent_compute(comp, state, kernel,
                                              <<"check_inflow">>) :
             c \in {InflowComponentChecker_check(comp.input_properties,
                                                 in_aliases, state)}} :
            TRUE

\* _get_tendency_name: f"{name}_tendency_from_{self.name}"
get_tendency_name(quantity_name, name) ==
    quantity_name \o "_tendency_from_" \o name

\* properties[p.name] = p on a property dict: an existing key keeps its
\* place, a new one goes last
DictSet(props, p) ==
    IF p.name \in Names(props)
    THEN [i \in 1..Len(props) |-> IF props[i].name = p.name THEN p ELSE props[i]]
    ELSE Append(props, p)

RECURSIVE insert_tendency_properties_from(_, _, _, _)
insert_tendency_properties_from(tendency_properties, name, i, diagnostic_properties) ==
    IF i > Len(tendency_properties) THEN diagnostic_properties
    ELSE insert_tendency_properties_from(
             tendency_properties, name, i + 1,
             DictSet(diagnostic_properties,
                     [name |-> get_tendency_name(tendency_properties[i].name, name),
                      dims |-> tendency_properties[i].dims,
                      units |-> tendency_properties[i].units,
                      alias |-> ""]))

\* TendencyComponent._insert_tendency_properties: diagnostic_properties
\* after the constructor has added one entry per tendency
insert_tendency_properties(tendency_properties, name, diagnostic_properties) ==
    insert_tendency_properties_from(tendency_properties, name, 1,
                                    diagnostic_properties)

\* TendencyComponent._insert_tendencies_to_diagnostics: every wrapped
\* tendency is stored under its tendency name
insert_tendencies_to_diagnostics(name, tendencies, diagnostics) ==
    LET added == {get_tendency_name(k, name) : k \in DOMAIN tendencies}
    IN  [key \in DOMAIN diagnostics \cup added |->
            IF key \in added
            THEN tendencies[CHOOSE k \in DOMAIN tendencies :
                                get_tendency_name(k, name) = key]
            ELSE diagnostics[key]]

(***************************************************************************)
(* Tracers.  sympl._core.tracers is outside the sources at hand; of the    *)
(* TracerPacker the components use pack, that gives the kernel one array   *)
(* with a row for each registered tracer, and unpack, that wraps each row  *)
(* of the array the kernel returns under "tracers" into a quantity of its  *)
(* own.  The model keeps the rows and leaves the other axes out.           *)
(***************************************************************************)
\* TracerPacker.pack(state): the shape of the packed array
TracerPacker_pack(tracer_names) == <<Len(tracer_names)>>

\* TracerPacker.unpack(tracer_array, state, multiply_unit): one quantity
\* for each registered tracer
TracerPacker_unpack(tracer_names, units) ==
    [n \in Range(tracer_names) |-> [dims |-> <<>>, shape |-> <<>>, units |-> units]]

\* raw_state["tracers"] = self._tracer_packer.pack(state)
with_tracers(comp, raw_state) ==
    IF ~comp.uses_tracers THEN raw_state
    ELSE [k \in DOMAIN raw_state \cup {"tracers"} |->
             IF k = "tracers" THEN TracerPacker_pack(comp.tracer_names)
             ELSE raw_state[k]]

\* raw.pop("tracers") has left raw without that key
popped(raw, key) == SelectSeq(raw, LAMBDA e : e.key # key)

\* out.update(more) on dicts of quantities
DictUpdate(out, more) ==
    [k \in DOMAIN out \cup DOMAIN more |-> IF k \in DOMAIN more THEN more[k] ELSE out[k]]

\* the phases entered once the kernel has returned and the tracers, if the
\* component uses any, are unpacked: unpack wraps the rows of the tracer
\* array, which is marshalling out, when there is a tracer to wrap
after_unpack(comp, trace) ==
    IF comp.uses_tracers /\ comp.tracer_names # <<>>
    THEN trace \o <<"marshal_outflow">> ELSE trace

\* TendencyComponent.__call__ from the extraction of the raw state on
TendencyComponent_compute(comp, state, kernel, trace) ==
    LET in_aliases == get_aliases(comp.input_properties, comp.input_properties)
        t_aliases == get_aliases(comp.tendency_properties, comp.input_properties)
        d_aliases == get_aliases(comp.diagnostic_properties, comp.input_properties)
        raw_tendencies == IF comp.uses_tracers
                          THEN popped(kernel.tendencies, "tracers")
                          ELSE kernel.tendencies
        out_tendencies == IF comp.uses_tracers
                          THEN TracerPacker_unpack(comp.tracer_names, "m s^-1")
                          ELSE <<>>
        t2 == trace \o <<"marshal_inflow">>
        t3 == t2 \o <<"array_call">>
        t3u == after_unpack(comp, t3)
        t4 == IF comp.enable_checks THEN t3u \o <<"check_outflow">> ELSE t3u
        t5 == t4 \o <<"marshal_outflow">>
    IN  CHOOSE out \in UNION {
            IF m.err # "" THEN {CompRaise(Raised(m.err, m.msg, {}), t2, <<>>)}
            ELSE IF kernel.raises
            THEN {CompRaise(KernelRaised, t3, with_tracers(comp, m.raw))}
            ELSE IF comp.uses_tracers /\ "tracers" \notin Keys(kernel.tendencies)
            THEN {CompRaise(Raised("KeyError", "tracers", {}), t3,
                            with_tracers(comp, m.raw))}
            ELSE {IF c.err # "" THEN CompRaise(c, t4, with_tracers(comp, m.raw))
                  ELSE IF g.err # ""
                  THEN CompRaise(Raised(g.err, g.msg, {}), t5,
                                 with_tracers(comp, m.raw))
                  ELSE IF h.err # ""
                  THEN CompRaise(Raised(h.err, h.msg, {}), t5,
                                 with_tracers(comp, m.raw))
                  ELSE CompReturn(t5, with_tracers(comp, m.raw),
                                  DictUpdate(out_tendencies, g.out),
                                  IF comp.tendencies_in_diagnostics
                                  THEN insert_tendencies_to_diagnostics(
                                           comp.name,
                                           DictUpdate(out_tendencies, g.out),
                                           h.out)
                                  ELSE h.out,
                                  <<>>) :
                  c \in {IF ~comp.enable_checks THEN Passed
                         ELSE IF OutflowComponentChecker_check(
                                     comp.tendency_properties, t_aliases,
                                     raw_tendencies, state).err # ""
                         THEN OutflowComponentChecker_check(
                                  comp.tendency_properties, t_aliases,
                                  raw_tendencies, state)
                         ELSE OutflowComponentChecker_check(
                                  comp.diagnostic_properties, d_aliases,
                                  kernel.diagnostics, state)},
                  g \in {get_dataarray_dict(comp.tendency_properties, t_aliases,
                                            raw_tendencies, state)},
                  h \in {get_dataarray_dict(comp.diagnostic_properties, d_aliases,
                                            kernel.diagnostics, state)}} :
            m \in {get_ndarray_dict(comp.input_properties, in_aliases, state)}} :
        TRUE

\* TendencyComponent.__call__ of sympl._core.core_components
TendencyComponent_call(comp, state, kernel) ==
    LET in_aliases == get_aliases(comp.input_properties, comp.input_properties)
    IN  IF ~comp.enable_checks
        THEN TendencyComponent_compute(comp, state, kernel, <<>>)
        ELSE CHOOSE out \in
            {IF c.err # "" THEN CompRaise(c, <<"check_inflow">>, <<>>)
             ELSE TendencyComponent_compute(comp, state, kernel,
                                            <<"check_inflow">>) :
             c \in {InflowComponentChecker_check(comp.input_properties,
                                                 in_aliases, state)}} :
            TRUE

\* the shape of a - b for arrays of shapes a and b: numpy pairs the axes
\* from the last one on, and two lengths go together when they are equal
\* or one of them is 1
broadcast_shapes(a, b) ==
    LET n == IF Len(a) > Len(b) THEN Len(a) ELSE Len(b)
        at(x, j) == IF j > n - Len(x) THEN x[j - (n - Len(x))] ELSE 1
    IN  IF \E j \in 1..n : at(a, j) # at(b, j) /\ at(a, j) # 1 /\ at(b, j) # 1
        THEN [err |-> "ValueError", shape |-> <<>>]
        ELSE [err |-> "",
              shape |-> [j \in 1..n |-> IF at(a, j) = 1 THEN at(b, j)
                                         ELSE at(a, j)]]

\* raw[key] = shape on the raw output of a kernel
RawSet(raw, key, shape) ==
    IF key \in Keys(raw)
    THEN [i \in 1..Len(raw) |->
             IF raw[i].key = key THEN [key |-> key, shape |-> shape] ELSE raw[i]]
    ELSE Append(raw, [key |-> key, shape |-> shape])

\* Stepper._insert_tendencies_to_diagnostics of base_components.py from the
\* i-th output property on: [err, msg, names, raw_diagnostics].  The raw
\* arrays are looked up by the name of the quantity.
RECURSIVE Stepper_insert_tendencies_to_diagnostics_from(_, _, _, _, _)
Stepper_insert_tendencies_to_diagnostics_from(comp, raw_state, raw_new_state, raw_diagnostics, i) ==
    IF i > Len(comp.output_properties)
    THEN [err |-> "", msg |-> "", names |-> {},
          raw_diagnostics |-> raw_diagnostics]
    ELSE LET name == comp.output_properties[i].name
             Fail(err, msg) == [err |-> err, msg |-> msg, names |-> {name},
                                raw_diagnostics |-> raw_diagnostics]
         IN  IF name \notin Keys(raw_new_state) THEN Fail("KeyError", "raw_new_state")
             ELSE IF name \notin DOMAIN raw_state THEN Fail("KeyError", "raw_state")
             ELSE CHOOSE out \in
                 {IF d.err # "" THEN Fail(d.err, "broadcast")
                  ELSE Stepper_insert_tendencies_to_diagnostics_from(
                           comp, raw_state, raw_new_state,
                           RawSet(raw_diagnostics,
                                  get_tendency_name(name, comp.name), d.shape),
                           i + 1) :
                  d \in {broadcast_shapes(ItemOf(raw_new_state, name).shape,
                                          raw_state[name])}} : TRUE

Stepper_insert_tendencies_to_diagnostics(comp, raw_state, raw_new_state, raw_diagnostics) ==
    Stepper_insert_tendencies_to_diagnostics_from(comp, raw_state, raw_new_state,
                                                  raw_diagnostics, 1)

\* Stepper.__call__ of sympl._core.base_components from the extraction of
\* the raw state on, for a stepper whose constructor has run; set_order is
\* the order in which the sets of the process iterate
Stepper_compute(comp, state, kernel, trace, set_order) ==
    LET raw_new_state == IF comp.uses_tracers
                         THEN popped(kernel.new_state, "tracers")
                         ELSE kernel.new_state
        new_state == IF comp.uses_tracers
                     THEN TracerPacker_unpack(comp.tracer_names, "m")
                     ELSE <<>>
        t2 == trace \o <<"marshal_inflow">>
        t3 == t2 \o <<"array_call">>
        t3u == after_unpack(comp, t3)
        t4 == IF comp.enable_checks THEN t3u \o <<"check_outflow">> ELSE t3u
        t5 == t4 \o <<"marshal_outflow">>
    IN  CHOOSE out \in UNION {
            IF m.err # "" THEN {CompRaise(m, t2, <<>>)}
            ELSE IF kernel.raises
            THEN {CompRaise(KernelRaised, t3, with_tracers(comp, m.raw))}
            ELSE IF comp.uses_tracers /\ "tracers" \notin Keys(kernel.new_state)
            THEN {CompRaise(Raised("KeyError", "tracers", {}), t3,
                            with_tracers(comp, m.raw))}
            ELSE IF /\ comp.enable_checks
                    /\ check_diagnostics(comp.diagnostic_properties,
                           comp.input_properties, kernel.diagnostics).err # ""
            THEN {CompRaise(check_diagnostics(comp.diagnostic_properties,
                                comp.input_properties, kernel.diagnostics),
                            t4, with_tracers(comp, m.raw))}
            ELSE IF /\ comp.enable_checks
                    /\ check_outputs(comp.output_properties,
                           comp.input_properties, raw_new_state).err # ""
            THEN {CompRaise(check_outputs(comp.output_properties,
                                comp.input_properties, raw_new_state),
                            t4, with_tracers(comp, m.raw))}
            ELSE UNION {
                IF i.err # ""
                THEN {CompRaise(Raised(i.err, i.msg, i.names), t4,
                                with_tracers(comp, m.raw))}
                ELSE {IF d.err # "" THEN CompRaise(d, t5, with_tracers(comp, m.raw))
                      ELSE IF n.err # ""
                      THEN CompRaise(n, t5, with_tracers(comp, m.raw))
                      ELSE CompReturn(t5, with_tracers(comp, m.raw), <<>>, d.out,
                                      DictUpdate(new_state, n.out)) :
                      d \in {restore_data_arrays_with_properties(
                                 i.raw_diagnostics, comp.diagnostic_properties,
                                 state, comp.input_properties, comp.enable_checks,
                                 set_order)},
                      n \in {restore_data_arrays_with_properties(
                                 raw_new_state, comp.output_properties,
                                 state, comp.input_properties, comp.enable_checks,
                                 set_order)}} :
                i \in {IF comp.tendencies_in_diagnostics
                       THEN Stepper_insert_tendencies_to_diagnostics(
                                comp, with_tracers(comp, m.raw), raw_new_state,
                                kernel.diagnostics)
                       ELSE [err |-> "", msg |-> "", names |-> {},
                             raw_diagnostics |-> kernel.diagnostics]}} :
            m \in {get_arrays_with_properties(state, comp.input_properties,
                                              comp.enable_checks, set_order)}} :
        TRUE

\* Stepper.__call__ of sympl._core.base_components
Stepper_call(comp, state, kernel, set_order) ==
    IF ~comp.enable_checks THEN Stepper_compute(comp, state, kernel, <<>>, set_order)
    ELSE IF check_inputs(comp.input_properties, state) # ""
    THEN CompRaise(Raised("InvalidStateError", "missing",
                          {check_inputs(comp.input_properties, state)}),
                   <<"check_inflow">>, <<>>)
    ELSE Stepper_compute(comp, state, kernel, <<"check_inflow">>, set_order)

(***************************************************************************)
(* Calls of an instance whose class overrides __init__.  init is           *)
(* [super_init, own_enable_checks]: whether that __init__ called the       *)
(* __init__ of the base class, and the value it assigned to                *)
(* self._enable_checks itself, "unset" if it assigned none.  Reading an    *)
(* attribute no __init__ assigned raises AttributeError.                   *)
(***************************************************************************)
AttributeError(name) == Raised("AttributeError", name, {})

\* Stepper._check_self_is_initialized of sympl._core.base_components
check_self_is_initialized(init) ==
    IF ~init.super_init
    THEN Raised("RuntimeError", "missing call to super().__init__", {})
    ELSE Passed

\* Stepper.__call__ of sympl._core.base_components
Stepper_call_of(init, comp, state, kernel, set_order) ==
    IF init.super_init THEN Stepper_call(comp, state, kernel, set_order)
    ELSE IF init.own_enable_checks = "unset"
    THEN CompRaise(AttributeError("_enable_checks"), <<>>, <<>>)
    ELSE IF init.own_enable_checks = "True"
    THEN CompRaise(check_self_is_initialized(init), <<"check_inflow">>, <<>>)
    ELSE CHOOSE out \in
        {IF m.err # "" THEN CompRaise(m, <<"marshal_inflow">>, <<>>)
         ELSE IF comp.uses_tracers
         THEN CompRaise(AttributeError("_tracer_packer"), <<"marshal_inflow">>,
                        <<>>)
         ELSE IF kernel.raises
         THEN CompRaise(KernelRaised, <<"marshal_inflow", "array_call">>, m.raw)
         ELSE CompRaise(AttributeError("_tendencies_in_diagnostics"),
                        <<"marshal_inflow", "array_call">>, m.raw) :
         m \in {get_arrays_with_properties(state, comp.input_properties,
                                           FALSE, set_order)}} : TRUE

\* DiagnosticComponent.__call__ and TendencyComponent.__call__ of
\* sympl._core.core_components
Component_call_of(init, comp, state, kernel) ==
    IF init.super_init
    THEN IF comp.kind = "DiagnosticComponent"
         THEN DiagnosticComponent_call(comp, state, kernel)
         ELSE TendencyComponent_call(comp, state, kernel)
    ELSE IF init.own_enable_checks = "unset"
    THEN CompRaise(AttributeError("_enable_checks"), <<>>, <<>>)
    ELSE IF init.own_enable_checks = "True"
    THEN CompRaise(AttributeError("_input_checker"), <<"check_inflow">>, <<>>)
    ELSE CompRaise(AttributeError("_input_operator"), <<"marshal_inflow">>, <<>>)

(***************************************************************************)
(* Tendencies in diagnostics.  A property dict is a sequence of entries in *)
(* insertion order, a dict of DataArrays a function from keys to fields.   *)
(***************************************************************************)
\* the tendency TendencyStepper derives from the old and the new value of
\* a quantity: [err, value], value being their difference per time unit in
\* "<base_units> s^-1".  to_units raises ValueError for a value whose units
\* cannot be converted to base_units; the difference has the dims of the
\* new value followed by those only the old value has, and is refused with
\* ValueError when a dimension of both has two lengths
time_differenced(old, new, base_units) ==
    LET only_old == SelectSeq(old.dims, LAMBDA d : d \notin Range(new.dims))
        length(field, d) ==
            field.shape[CHOOSE j \in 1..Len(field.dims) : field.dims[j] = d]
    IN  IF \/ ~units_are_compatible(new.units, base_units)
           \/ ~units_are_compatible(old.units, base_units)
        THEN [err |-> "ValueError", msg |-> "to_units"]
        ELSE IF \E d \in Range(new.dims) \cap Range(old.dims) :
                    length(new, d) # length(old, d)
        THEN [err |-> "ValueError", msg |-> "broadcast"]
        ELSE [err |-> "", msg |-> "",
              value |->
                  [dims |-> new.dims \o only_old,
                   shape |-> new.shape
                             \o [j \in 1..Len(only_old) |->
                                    length(old, only_old[j])],
                   units |-> IF base_units = "" THEN "s^-1"
                             ELSE base_units \o " s^-1"]]

\* TendencyStepper._insert_tendencies_to_diagnostics: [err, msg, names,
\* out]; the new value is looked up and converted before the old one is
\* looked up
RECURSIVE TendencyStepper_insert_tendencies_from(_, _, _, _, _)
TendencyStepper_insert_tendencies_from(comp, state, new_state, i, diagnostics) ==
    IF i > Len(comp.output_properties)
    THEN [err |-> "", msg |-> "", names |-> {}, out |-> diagnostics]
    ELSE LET name == comp.output_properties[i].name
             tendency_name == get_tendency_name(name, comp.name)
         IN  IF tendency_name \in DOMAIN diagnostics
             THEN [err |-> "RuntimeError", msg |-> "name clash",
                   names |-> {tendency_name}, out |-> diagnostics]
             ELSE IF name \notin Names(comp.input_properties)
                     \/ name \notin DOMAIN new_state
             THEN [err |-> "KeyError", msg |-> "insert", names |-> {name},
                   out |-> diagnostics]
             ELSE IF ~units_are_compatible(
                          new_state[name].units,
                          PropOf(comp.input_properties, name).units)
             THEN [err |-> "ValueError", msg |-> "to_units", names |-> {name},
                   out |-> diagnostics]
             ELSE IF name \notin DOMAIN state
             THEN [err |-> "KeyError", msg |-> "insert", names |-> {name},
                   out |-> diagnostics]
             ELSE CHOOSE out \in
                 {IF t.err # ""
                  THEN [err |-> t.err, msg |-> t.msg, names |-> {name},
                        out |-> diagnostics]
                  ELSE TendencyStepper_insert_tendencies_from(
                           comp, state, new_state, i + 1,
                           [key \in DOMAIN diagnostics \cup {tendency_name} |->
                               IF key = tendency_name THEN t.value
                               ELSE diagnostics[key]]) :
                  t \in {time_differenced(
                             state[name], new_state[name],
                             PropOf(comp.input_properties, name).units)}} : TRUE

TendencyStepper_insert_tendencies_to_diagnostics(comp, state, new_state, diagnostics) ==
    TendencyStepper_insert_tendencies_from(comp, state, new_state, 1, diagnostics)

\* TendencyStepper.__call__ around what self._call(state, timestep) does:
\* stepped = [raises, diagnostics, new_state]
TendencyStepper_call_stepped(comp, state, stepped) ==
    IF stepped.raises
    THEN CompRaise(Raised("StepError", "_call", {}), <<>>, <<>>)
    ELSE CHOOSE out \in
        {IF ~comp.tendencies_in_diagnostics
         THEN CompReturn(<<>>, <<>>, <<>>, stepped.diagnostics, ns)
         ELSE IF ins.err # "" THEN CompRaise(ins, <<>>, <<>>)
         ELSE CompReturn(<<>>, <<>>, <<>>, ins.out, ns) :
         ns \in {copy_untouched_quantities(state, stepped.new_state)},
         ins \in {TendencyStepper_insert_tendencies_to_diagnostics(
                      comp, state,
                      copy_untouched_quantities(state, stepped.new_state),
                      stepped.diagnostics)}} : TRUE

\* TendencyStepper.__call__ of sympl._core.steppers
(***************************************************************************)
(* The wildcard resolution and the marshalling functions of wildcard.py,   *)
(* get_np_arrays.py and restore_dataarray.py.  A dimension holds each name *)
(* at most once in an array.                                               *)
(***************************************************************************)
\* get_wildcard_matches_and_dim_lengths from the i-th property on: [err,
\* msg, names, wildcard_names, dim_lengths]
RECURSIVE get_wildcard_matches_and_dim_lengths_from(_, _, _, _, _)
get_wildcard_matches_and_dim_lengths_from(state, property_dictionary, i, wildcard_names, dim_lengths) ==
    IF i > Len(property_dictionary)
    THEN [err |-> "", msg |-> "", names |-> {},
          wildcard_names |-> wildcard_names, dim_lengths |-> dim_lengths]
    ELSE IF property_dictionary[i].name \notin DOMAIN state
    THEN [err |-> "KeyError", msg |-> "state",
          names |-> {property_dictionary[i].name},
          wildcard_names |-> <<>>, dim_lengths |-> <<>>]
    ELSE LET properties == property_dictionary[i]
             field == state[properties.name]
             axes == 1..Len(field.dims)
             unseen(dim) == dim \notin Range(properties.dims)
             new_wildcard_names == SelectSeq(field.dims, unseen)
             fresh(dim) == dim \notin Range(wildcard_names)
         IN  IF \E j \in axes : /\ field.dims[j] \in DOMAIN dim_lengths
                                /\ dim_lengths[field.dims[j]] # field.shape[j]
             THEN [err |-> "InvalidStateError", msg |-> "conflicting",
                   names |-> {field.dims[j] : j \in
                                 {k \in axes :
                                     /\ field.dims[k] \in DOMAIN dim_lengths
                                     /\ dim_lengths[field.dims[k]] # field.shape[k]
                                     /\ \A l \in 1..(k - 1) :
                                           field.dims[l] \in DOMAIN dim_lengths
                                           => dim_lengths[field.dims[l]]
                                                  = field.shape[l]}},
                   wildcard_names |-> <<>>, dim_lengths |-> <<>>]
             ELSE IF Len(new_wildcard_names) > 0 /\ "*" \notin Range(properties.dims)
             THEN [err |-> "InvalidStateError", msg |-> "unexpected",
                   names |-> {properties.name},
                   wildcard_names |-> <<>>, dim_lengths |-> <<>>]
             ELSE get_wildcard_matches_and_dim_lengths_from(
                      state, property_dictionary, i + 1,
                      wildcard_names \o SelectSeq(new_wildcard_names, fresh),
                      [d \in DOMAIN dim_lengths \cup Range(field.dims) |->
                          IF d \in DOMAIN dim_lengths THEN dim_lengths[d]
                          ELSE field.shape[CHOOSE j \in axes : field.dims[j] = d]])

\* a variant that keeps the first length seen of a dimension and lets
\* arrays of another length pass
RECURSIVE keep_first_length_from(_, _, _, _, _)
keep_first_length_from(state, property_dictionary, i, wildcard_names, dim_lengths) ==
    IF i > Len(property_dictionary)
    THEN [err |-> "", msg |-> "", names |-> {},
          none |-> \A k \in 1..Len(property_dictionary) :
                       "*" \notin Range(property_dictionary[k].dims),
          wildcard_names |-> wildcard_names, dim_lengths |-> dim_lengths]
    ELSE IF property_dictionary[i].name \notin DOMAIN state
    THEN [err |-> "KeyError", msg |-> "state",
          names |-> {property_dictionary[i].name}, none |-> FALSE,
          wildcard_names |-> <<>>, dim_lengths |-> <<>>]
    ELSE LET field == state[property_dictionary[i].name]
             unseen(dim) == dim \notin Range(property_dictionary[i].dims)
             fresh(dim) == dim \notin Range(wildcard_names)
         IN  keep_first_length_from(
                 state, property_dictionary, i + 1,
                 wildcard_names \o SelectSeq(SelectSeq(field.dims, unseen), fresh),
                 [d \in DOMAIN dim_lengths \cup Range(field.dims) |->
                     IF d \in DOMAIN dim_lengths THEN dim_lengths[d]
                     ELSE field.shape[CHOOSE j \in 1..Len(field.dims) :
                                          field.dims[j] = d]])

get_wildcard_matches_keeping_first_length(state, property_dictionary) == keep_first_length_from(state, property_dictionary, 1, <<>>, <<>>)

\* get_wildcard_matches_and_dim_lengths: none tells that wildcard_names is
\* None, which it is when no property's dims holds "*"
get_wildcard_matches_and_dim_lengths(state, property_dictionary) ==
    CHOOSE out \in
        {[err |-> r.err, msg |-> r.msg, names |-> r.names,
          none |-> (r.err = "" /\ \A i \in 1..Len(property_dictionary) :
                                     "*" \notin Range(property_dictionary[i].dims)),
          wildcard_names |->
              IF \A i \in 1..Len(property_dictionary) :
                     "*" \notin Range(property_dictionary[i].dims)
              THEN <<>> ELSE r.wildcard_names,
          dim_lengths |-> r.dim_lengths] :
         r \in {get_wildcard_matches_and_dim_lengths_from(
                    state, property_dictionary, 1, <<>>, <<>>)}} : TRUE

\* numpy arrays are [shape, data], data being the elements in C order;
\* the index along each axis (from 0) of the k-th element (from 0)
Unravel(k, shape) ==
    [i \in 1..Len(shape) |->
        (k \div Product(SubSeq(shape, i + 1, Len(shape)))) % shape[i]]

RECURSIVE Ravel(_, _)
Ravel(idx, shape) ==
    IF Len(shape) = 0 THEN 0
    ELSE Head(idx) * Product(Tail(shape)) + Ravel(Tail(idx), Tail(shape))

\* a variant that relabels the axes and leaves the data where it lies
transpose_keeping_layout(dims, array, out_dims) ==
    LET axis(i) == CHOOSE j \in 1..Len(dims) : dims[j] = out_dims[i]
    IN  [shape |-> [i \in 1..Len(out_dims) |-> array.shape[axis(i)]],
         data |-> array.data]

\* data_array.transpose(*out_dims).data for out_dims a reordering of dims
transpose(dims, array, out_dims) ==
    LET axis(i) == CHOOSE j \in 1..Len(dims) : dims[j] = out_dims[i]
        shape == [i \in 1..Len(out_dims) |-> array.shape[axis(i)]]
    IN  [shape |-> shape,
         data |-> [k \in 1..Len(array.data) |->
                      LET idx == Unravel(k - 1, shape)
                          src == [j \in 1..Len(dims) |->
                                     idx[CHOOSE i \in 1..Len(out_dims) :
                                             axis(i) = j]]
                      IN  array.data[Ravel(src, array.shape) + 1]]]

\* out_array = np.empty(out_shape); out_array[:] = numpy_array, for arrays
\* of the same rank: axes of length 1 are repeated
broadcast(array, out_shape) ==
    [shape |-> out_shape,
     data |-> [k \in 1..Product(out_shape) |->
                  LET idx == Unravel(k - 1, out_shape)
                      src == [j \in 1..Len(out_shape) |->
                                 IF array.shape[j] = 1 THEN 0 ELSE idx[j]]
                  IN  array.data[Ravel(src, array.shape) + 1]]]

\* out_array[:] = numpy_array for arrays of any rank: the leading axes of
\* length 1 are dropped and the rest is matched from the right
broadcast_assign(array, out_shape) ==
    LET lead == CHOOSE k \in 0..Len(array.shape) :
                    /\ \A j \in 1..k : array.shape[j] = 1
                    /\ k = Len(array.shape) \/ array.shape[k + 1] # 1
        rest == SubSeq(array.shape, lead + 1, Len(array.shape))
    IN  broadcast([shape |-> [j \in 1..(Len(out_shape) - Len(rest)) |-> 1]
                                \o rest,
                   data |-> array.data], out_shape)

\* unit_registry.convert(1, original_units, new_units) for the conversion
\* the modelled declarations ask for, kilometres to metres
convert(original_units, new_units) ==
    CASE original_units = "km" /\ new_units = "m" -> 1000

\* DataArray.to_units on the data of a quantity: [err, data]; units of
\* another dimensionality make it raise ValueError
DataArray_to_units(field, units) ==
    IF field.units = units THEN [err |-> "", data |-> field.data]
    ELSE IF ~units_are_compatible(field.units, units)
    THEN [err |-> "ValueError", data |-> <<>>]
    ELSE [err |-> "",
          data |-> [k \in 1..Len(field.data) |->
                       convert(field.units, units) * field.data[k]]]

(***************************************************************************)
(* The registry of constants (constants.py): constant_aliases maps an      *)
(* alias to a name, which can be an alias again, and constants maps a name *)
(* to a value with units, kept as a DataArray of one element.              *)
(***************************************************************************)
MaxAliasIterations == 100

\* a variant that follows one alias only
RECURSIVE get_alias_once(_, _, _)
get_alias_once(constant_aliases, name, n_iterations) ==
    IF name \in DOMAIN constant_aliases /\ n_iterations < 1
    THEN get_alias_once(constant_aliases, constant_aliases[name], n_iterations + 1)
    ELSE [err |-> "", name |-> name]

\* get_alias from the n_iterations-th turn of its loop on: [err, name]
RECURSIVE get_alias(_, _, _)
get_alias(constant_aliases, name, n_iterations) ==
    IF name \in DOMAIN constant_aliases /\ n_iterations < MaxAliasIterations
    THEN get_alias(constant_aliases, constant_aliases[name], n_iterations + 1)
    ELSE IF name \in DOMAIN constant_aliases
    THEN [err |-> "RuntimeError", name |-> name]
    ELSE [err |-> "", name |-> name]

\* the key ConstantDict.__setitem__ and __getitem__ use for key
ConstantDict_key(constant_aliases, key) ==
    IF key \in DOMAIN constant_aliases THEN get_alias(constant_aliases, key, 0)
    ELSE [err |-> "", name |-> key]

is_valid_unit(unit) == unit \in {"m", "km", "s", "W m^-2", "J kg^-1"}

\* set_constant: [err, constants]
set_constant(constant_aliases, constants, name, value, units) ==
    IF ~is_valid_unit(units) THEN [err |-> "ValueError", constants |-> constants]
    ELSE CHOOSE out \in UNION {
        IF a.err # "" THEN {[err |-> a.err, constants |-> constants]}
        ELSE {IF key.err # "" THEN [err |-> key.err, constants |-> constants]
              ELSE [err |-> "",
                    constants |->
                        [n \in DOMAIN constants \cup {key.name} |->
                            IF n = key.name
                            THEN [units |-> units, data |-> <<value>>]
                            ELSE constants[n]]] :
              key \in {ConstantDict_key(constant_aliases, a.name)}} :
        a \in {get_alias(constant_aliases, name, 0)}} : TRUE

\* get_condensible_map: the names that stand for a phase of the
\* condensible, each with the name of the constant of that condensible
get_condensible_map(condensible_name) ==
    [n \in {"a3"} |-> n \o "_of_" \o condensible_name]

\* the tables the module is imported with, cut to the names of the model:
\* k stands for solar_constant and a3_of_water for
\* latent_heat_of_vaporization_of_water, each with the value and the units
\* of the table; default_constant_aliases holds an alias of a constant and
\* an alias of a name that stands for a phase of the condensible
default_constants ==
    [n \in {"k", "a3_of_water"} |->
        IF n = "k" THEN [units |-> "W m^-2", data |-> <<1367>>]
        ELSE [units |-> "J kg^-1", data |-> <<2500000>>]]
default_constant_aliases ==
    [n \in {"a1", "a2"} |-> IF n = "a1" THEN "k" ELSE "a3"]

\* constant_aliases.update(table)
aliases_update(constant_aliases, table) ==
    [n \in DOMAIN constant_aliases \cup DOMAIN table |->
        IF n \in DOMAIN table THEN table[n] ELSE constant_aliases[n]]

\* set_condensible_name: the constant_aliases it leaves
set_condensible_name(constant_aliases, name) ==
    aliases_update(constant_aliases, get_condensible_map(name))

\* reset_constants: [constants, constant_aliases]; update copies the
\* default constants under their own keys
reset_constants ==
    [constants |-> default_constants,
     constant_aliases |-> aliases_update(
         aliases_update(<<>>, default_constant_aliases),
         get_condensible_map("water"))]

\* get_constant: [err, value]
get_constant(constant_aliases, constants, name, units) ==
    CHOOSE out \in UNION {
        IF a.err # "" THEN {[err |-> a.err, value |-> 0]}
        ELSE {IF key.err # "" THEN [err |-> key.err, value |-> 0]
              ELSE IF key.name \notin DOMAIN constants
              THEN [err |-> "KeyError", value |-> 0]
              ELSE IF DataArray_to_units(constants[key.name], units).err # ""
              THEN [err |-> "ValueError", value |-> 0]
              ELSE [err |-> "",
                    value |-> DataArray_to_units(constants[key.name],
                                                 units).data[1]] :
              key \in {ConstantDict_key(constant_aliases, a.name)}} :
        a \in {get_alias(constant_aliases, name, 0)}} : TRUE

\* get_numpy_array: [err, shape, data]; expand_dims refuses a dimension the
\* array already has and transpose a list that is no reordering of its
\* dimensions, both with ValueError; the dimensions are compared as far as
\* zip pairs them, and the array is assigned to one of out_shape by numpy's
\* broadcasting
get_numpy_array(data_array, out_dims, dim_lengths) ==
    LET missing_dims == SelectSeq(out_dims, LAMBDA d : d \notin Range(data_array.dims))
        dims == [j \in 1..Len(missing_dims) |->
                    missing_dims[Len(missing_dims) + 1 - j]] \o data_array.dims
        expanded == [shape |-> [j \in 1..Len(missing_dims) |-> 1] \o data_array.shape,
                     data |-> data_array.data]
        asis == \A j \in 1..Min(Len(dims), Len(out_dims)) : dims[j] = out_dims[j]
        out_shape == [j \in 1..Len(out_dims) |->
                         IF out_dims[j] \in DOMAIN dim_lengths
                         THEN dim_lengths[out_dims[j]] ELSE 1]
    IN  IF Len(data_array.shape) = 0 /\ Len(out_dims) = 0
        THEN [err |-> "", shape |-> data_array.shape, data |-> data_array.data]
        ELSE IF \E p, q \in 1..Len(missing_dims) :
                    p # q /\ missing_dims[p] = missing_dims[q]
        THEN [err |-> "ValueError", shape |-> <<>>, data |-> <<>>]
        ELSE IF ~asis /\ (Range(dims) # Range(out_dims) \/ Len(dims) # Len(out_dims))
        THEN [err |-> "ValueError", shape |-> <<>>, data |-> <<>>]
        ELSE CHOOSE out \in
            {IF Len(missing_dims) = 0 \/ out_shape = numpy_array.shape
             THEN [err |-> "", shape |-> numpy_array.shape, data |-> numpy_array.data]
             ELSE IF BroadcastsTo(numpy_array.shape, out_shape)
             THEN [err |-> ""] @@ broadcast_assign(numpy_array, out_shape)
             ELSE [err |-> "ValueError", shape |-> <<>>, data |-> <<>>] :
             numpy_array \in {IF asis THEN expanded
                              ELSE transpose(dims, expanded, out_dims)}} : TRUE

\* flatten_wildcard_dims: [err, shape, data]; the axes i_start..i_end - 1
\* (from 0) become one axis
flatten_wildcard_dims(array, i_start, i_end) ==
    IF i_end > Len(array.shape) \/ i_start < 0 \/ i_start > i_end
    THEN [err |-> "ValueError", shape |-> <<>>, data |-> <<>>]
    ELSE [err |-> "",
          shape |-> SubSeq(array.shape, 1, i_start)
                    \o <<Product(SubSeq(array.shape, i_start + 1, i_end))>>
                    \o SubSeq(array.shape, i_end + 1, Len(array.shape)),
          data |-> array.data]

\* the loop of get_numpy_arrays_with_properties from the i-th property on
RECURSIVE get_numpy_arrays_from(_, _, _, _, _)
get_numpy_arrays_from(state, property_dictionary, w, i, out_dict) ==
    IF i > Len(property_dictionary)
    THEN [err |-> "", msg |-> "", names |-> {}, raw |-> out_dict]
    ELSE LET properties == property_dictionary[i]
             name == properties.name
             has_wildcard == "*" \in Range(properties.dims)
             i_wildcard == IndexOf(properties.dims, "*")
             out_dims == IF has_wildcard
                         THEN SubSeq(properties.dims, 1, i_wildcard - 1)
                              \o w.wildcard_names
                              \o SubSeq(properties.dims, i_wildcard + 1,
                                        Len(properties.dims))
                         ELSE properties.dims
             out_name == IF properties.alias # "" THEN properties.alias ELSE name
         IN  CHOOSE out \in UNION {
                 IF quantity.err # ""
                 THEN {[err |-> "InvalidStateError", msg |-> "units",
                        names |-> {name}, raw |-> <<>>]}
                 ELSE {IF a.err # ""
                       THEN [err |-> a.err, msg |-> "array", names |-> {name},
                             raw |-> <<>>]
                       ELSE IF has_wildcard
                               /\ flatten_wildcard_dims(
                                      a, i_wildcard - 1,
                                      i_wildcard - 1 + Len(w.wildcard_names)).err # ""
                       THEN [err |-> "ValueError", msg |-> "flatten",
                             names |-> {name}, raw |-> <<>>]
                       ELSE get_numpy_arrays_from(
                                state, property_dictionary, w, i + 1,
                                [k \in DOMAIN out_dict \cup {out_name} |->
                                    IF k # out_name THEN out_dict[k]
                                    ELSE IF ~has_wildcard
                                    THEN [shape |-> a.shape, data |-> a.data]
                                    ELSE LET f == flatten_wildcard_dims(
                                                      a, i_wildcard - 1,
                                                      i_wildcard - 1
                                                          + Len(w.wildcard_names))
                                         IN  [shape |-> f.shape, data |-> f.data]]) :
                       a \in {get_numpy_array(
                                  [state[name] EXCEPT !.data = quantity.data],
                                  out_dims, w.dim_lengths)}} :
                 quantity \in {DataArray_to_units(state[name], properties.units)}} :
                 TRUE

\* get_numpy_arrays_with_properties: [err, msg, names, raw], raw holding
\* the arrays under alias or name
get_numpy_arrays_with_properties(state, property_dictionary) ==
    CHOOSE out \in
        {IF w.err # ""
         THEN [err |-> w.err, msg |-> w.msg, names |-> w.names, raw |-> <<>>]
         ELSE get_numpy_arrays_from(state, property_dictionary, w, 1, <<>>) :
         w \in {get_wildcard_matches_and_dim_lengths(state, property_dictionary)}} :
        TRUE

\* fill_dims_wildcard putting the wildcard's dimensions in reverse order
fill_dims_wildcard_reversed(out_dims, dim_lengths, wildcard_names) ==
    LET i_wildcard == IndexOf(out_dims, "*")
        before == SubSeq(out_dims, 1, i_wildcard - 1)
        after == SubSeq(out_dims, i_wildcard + 1, Len(out_dims))
        dims == before
                \o [j \in 1..Len(wildcard_names) |->
                       wildcard_names[Len(wildcard_names) + 1 - j]]
                \o after
    IN  IF Range(dims) \subseteq DOMAIN dim_lengths
        THEN [err |-> "", dims |-> dims,
              shape |-> [j \in 1..Len(dims) |-> dim_lengths[dims[j]]]]
        ELSE [err |-> "KeyError", dims |-> <<>>, shape |-> <<>>]

\* fill_dims_wildcard with expand_wildcard=True: [err, dims, shape]
fill_dims_wildcard(out_dims, dim_lengths, wildcard_names) ==
    LET i_wildcard == IndexOf(out_dims, "*")
        before == SubSeq(out_dims, 1, i_wildcard - 1)
        after == SubSeq(out_dims, i_wildcard + 1, Len(out_dims))
        dims == before \o wildcard_names \o after
    IN  IF Range(dims) \subseteq DOMAIN dim_lengths
        THEN [err |-> "", dims |-> dims,
              shape |-> [j \in 1..Len(dims) |-> dim_lengths[dims[j]]]]
        ELSE [err |-> "KeyError", dims |-> <<>>, shape |-> <<>>]

\* expand_array_wildcard_dims: np.reshape keeps the elements in order and
\* fails unless their number is that of the target shape
expand_array_wildcard_dims(raw_array, target_shape) ==
    IF Product(target_shape) = Len(raw_array.data)
    THEN [err |-> "", shape |-> target_shape, data |-> raw_array.data]
    ELSE [err |-> "InvalidPropertyDictError", shape |-> <<>>, data |-> <<>>]

\* the loop of restore_data_arrays_with_properties of restore_dataarray.py
\* from the i-th output property on (no name is ignored).  With
\* wildcard_names None, fill_dims_wildcard walks out_dims from the left: a
\* dimension without a length before the wildcard is a KeyError, and the
\* wildcard itself a TypeError.
RECURSIVE restore_dataarray_from(_, _, _, _, _, _, _)
restore_dataarray_from(raw_arrays, output_properties, input_properties, w, dim_lengths, i, out_dict) ==
    IF i > Len(output_properties)
    THEN [err |-> "", msg |-> "", names |-> {}, out |-> out_dict]
    ELSE LET name == output_properties[i].name
             out_dims == output_properties[i].dims
             raw_name == get_alias_or_name(name, output_properties, input_properties)
             Fail(err, msg) == [err |-> err, msg |-> msg, names |-> {name},
                                out |-> <<>>]
         IN  IF raw_name \notin DOMAIN raw_arrays THEN Fail("KeyError", "raw")
             ELSE IF "*" \in Range(out_dims)
             THEN LET raw_array == raw_arrays[raw_name]
                      zipped == 1..Min(Len(out_dims), Len(raw_array.shape))
                      added == {out_dims[j] : j \in zipped} \ (DOMAIN dim_lengths \cup {"*"})
                      lengths == [d \in DOMAIN dim_lengths \cup added |->
                                     IF d \in DOMAIN dim_lengths THEN dim_lengths[d]
                                     ELSE raw_array.shape[
                                              CHOOSE j \in zipped :
                                                  /\ out_dims[j] = d
                                                  /\ \A l \in 1..(j - 1) :
                                                        out_dims[l] # d]]
                      before == SubSeq(out_dims, 1, IndexOf(out_dims, "*") - 1)
                  IN  IF w.none /\ ~(Range(before) \subseteq DOMAIN lengths)
                      THEN Fail("KeyError", "fill")
                      ELSE IF w.none THEN Fail("TypeError", "wildcard")
                      ELSE CHOOSE out \in UNION {
                          IF f.err # "" THEN {Fail(f.err, "fill")}
                          ELSE {IF e.err # "" THEN Fail(e.err, "reshape")
                                ELSE restore_dataarray_from(
                                         raw_arrays, output_properties,
                                         input_properties, w, lengths, i + 1,
                                         [k \in DOMAIN out_dict \cup {name} |->
                                             IF k # name THEN out_dict[k]
                                             ELSE [dims |-> f.dims, shape |-> e.shape,
                                                   units |-> output_properties[i].units,
                                                   data |-> e.data]]) :
                                e \in {expand_array_wildcard_dims(raw_array, f.shape)}} :
                          f \in {fill_dims_wildcard(out_dims, lengths,
                                                    w.wildcard_names)}} : TRUE
             ELSE IF check_array_shape(out_dims, raw_arrays[raw_name].shape,
                                       dim_lengths) # ""
             THEN Fail("InvalidPropertyDictError",
                       check_array_shape(out_dims, raw_arrays[raw_name].shape,
                                         dim_lengths))
             ELSE restore_dataarray_from(
                      raw_arrays, output_properties, input_properties, w,
                      dim_lengths, i + 1,
                      [k \in DOMAIN out_dict \cup {name} |->
                          IF k # name THEN out_dict[k]
                          ELSE [dims |-> out_dims,
                                shape |-> raw_arrays[raw_name].shape,
                                units |-> output_properties[i].units,
                                data |-> raw_arrays[raw_name].data]])

\* restore_data_arrays_with_properties of restore_dataarray.py: [err, msg,
\* names, out]
restore_dataarray(raw_arrays, output_properties, input_state, input_properties) ==
    CHOOSE out \in
        {IF w.err # ""
         THEN [err |-> w.err, msg |-> w.msg, names |-> w.names, out |-> <<>>]
         ELSE restore_dataarray_from(raw_arrays, output_properties,
                                     input_properties, w, w.dim_lengths, 1, <<>>) :
         w \in {get_wildcard_matches_and_dim_lengths(input_state, input_properties)}} :
        TRUE

\* the data of the arrays InflowComponentOperator.get_ndarray_dict hands
\* over (out[raw_name] = da.data, transposed to the declared order where
\* the order differs), for a state it accepts
get_ndarray_dict_data(input_properties, aliases, state) ==
    LET found == FoundInputs(input_properties, aliases, state)
        da(n) == state[get_field_key(n, aliases, DOMAIN state)]
        raw_name(n) == IF PropOf(input_properties, n).alias # ""
                       THEN PropOf(input_properties, n).alias ELSE n
        target_dims(n) == PropOf(input_properties, n).dims
        asis(n) == \A i \in 1..Min(Len(da(n).dims), Len(target_dims(n))) :
                       da(n).dims[i] = target_dims(n)[i]
    IN  [k \in {raw_name(n) : n \in found} |->
            LET n == CHOOSE m \in found :
                         /\ raw_name(m) = k
                         /\ \A o \in found :
                               raw_name(o) = k =>
                                   NameIndex(input_properties, o)
                                       <= NameIndex(input_properties, m)
            IN  IF asis(n) THEN da(n).data
                ELSE transpose(da(n).dims,
                               [shape |-> da(n).shape, data |-> da(n).data],
                               target_dims(n)).data]

(***************************************************************************)
(* Construction.  The constructors validate the declarations when          *)
(* enable_checks is set: StaticComponentChecker.check for the components   *)
(* of core_components.py, the checkers of checks.py for those of           *)
(* base_components.py.  Every modelled property has dims and units and     *)
(* neither dims_like nor match_dims_like.                                  *)
(***************************************************************************)
Rejected(msg) == [err |-> "InvalidPropertyDictError", msg |-> msg]
Accepted == [err |-> "", msg |-> ""]

\* TendencyStaticComponentChecker.wrap_units
TendencyStaticComponentChecker_wrap_units(units) == units \o " s^-1"

\* TendencyStaticComponentChecker.check_incompatible_units: the units of a
\* tendency are compared with those of the input per second
TendencyStaticComponentChecker_check_incompatible_units(properties, other_properties) ==
    IF \E n \in Names(properties) \cap Names(other_properties) :
           ~units_are_compatible(
                PropOf(properties, n).units,
                TendencyStaticComponentChecker_wrap_units(
                    PropOf(other_properties, n).units))
    THEN [err |-> "InvalidPropertyDictError", msg |-> "incompatible units"]
    ELSE [err |-> "", msg |-> ""]

\* StaticComponentChecker.check_incompatible_units of the checkers whose
\* wrap_units returns the units as they are
check_incompatible_units(properties, other_properties) ==
    IF \E n \in Names(properties) \cap Names(other_properties) :
           ~units_are_compatible(PropOf(properties, n).units,
                                 PropOf(other_properties, n).units)
    THEN Rejected("incompatible units") ELSE Accepted

\* StaticComponentChecker.check_wildcard_dims
check_wildcard_dims(properties, other_properties) ==
    LET out(n) == Cardinality({j \in 1..Len(PropOf(properties, n).dims) :
                                 PropOf(properties, n).dims[j] = "*"})
    IN  IF \E n \in Names(properties) :
               \/ out(n) > 1
               \/ out(n) = 1 /\ n \notin Names(other_properties)
        THEN Rejected("wildcard") ELSE Accepted

\* the second loop of check_aliases from the i-th property on;
\* dict.setdefault gives the value the key already has
RECURSIVE check_aliases_from(_, _, _, _)
check_aliases_from(properties, i, name_to_alias, alias_to_name) ==
    IF i > Len(properties) THEN Accepted
    ELSE IF properties[i].alias = ""
    THEN check_aliases_from(properties, i + 1, name_to_alias, alias_to_name)
    ELSE LET name == properties[i].name
             new_alias == IF name \in DOMAIN name_to_alias
                          THEN name_to_alias[name] ELSE properties[i].alias
             n2a == [k \in DOMAIN name_to_alias \cup {name} |->
                        IF k = name THEN new_alias ELSE name_to_alias[k]]
             new_name == IF new_alias \in DOMAIN alias_to_name
                         THEN alias_to_name[new_alias] ELSE name
             a2n == [k \in DOMAIN alias_to_name \cup {new_alias} |->
                        IF k = new_alias THEN new_name ELSE alias_to_name[k]]
         IN  IF n2a[name] # new_alias THEN Rejected("multiple aliases")
             ELSE IF name # new_name THEN Rejected("same alias")
             ELSE check_aliases_from(properties, i + 1, n2a, a2n)

\* StaticComponentChecker.check_aliases: the first loop fills the two
\* dicts from other_properties, a later entry replacing an earlier one
check_aliases(properties, other_properties) ==
    LET aliased == {j \in 1..Len(other_properties) : other_properties[j].alias # ""}
        last(a) == CHOOSE j \in aliased :
                       /\ other_properties[j].alias = a
                       /\ \A l \in aliased :
                              other_properties[l].alias = a => l <= j
    IN  check_aliases_from(
            properties, 1,
            [n \in {other_properties[j].name : j \in aliased} |->
                PropOf(other_properties, n).alias],
            [a \in {other_properties[j].alias : j \in aliased} |->
                other_properties[last(a)].name])

\* StaticComponentChecker.check against the input properties
StaticComponentChecker_check(properties, other_properties) ==
    IF check_incompatible_units(properties, other_properties).err # ""
    THEN check_incompatible_units(properties, other_properties)
    ELSE IF check_wildcard_dims(properties, other_properties).err # ""
    THEN check_wildcard_dims(properties, other_properties)
    ELSE check_aliases(properties, other_properties)

\* TendencyStaticComponentChecker.check
TendencyStaticComponentChecker_check(properties, other_properties) ==
    IF TendencyStaticComponentChecker_check_incompatible_units(
           properties, other_properties).err # ""
    THEN TendencyStaticComponentChecker_check_incompatible_units(
             properties, other_properties)
    ELSE IF check_wildcard_dims(properties, other_properties).err # ""
    THEN check_wildcard_dims(properties, other_properties)
    ELSE check_aliases(properties, other_properties)

\* DiagnosticComponent.__init__ of core_components.py
DiagnosticComponent_init(c) ==
    IF ~c.enable_checks THEN Accepted
    ELSE IF StaticComponentChecker_check(c.input_properties,
                                         c.input_properties).err # ""
    THEN StaticComponentChecker_check(c.input_properties, c.input_properties)
    ELSE StaticComponentChecker_check(c.diagnostic_properties,
                                      c.input_properties)

\* check_overlapping_aliases of checks.py
check_overlapping_aliases(properties) ==
    IF \E i, j \in 1..Len(properties) :
           i < j /\ properties[i].alias # ""
                 /\ properties[i].alias = properties[j].alias
    THEN Rejected("overlapping aliases") ELSE Accepted

\* get_name_with_incompatible_units of units.py is not None
has_name_with_incompatible_units(properties1, properties2) ==
    \E n \in Names(properties1) \cap Names(properties2) :
        ~units_are_compatible(PropOf(properties1, n).units,
                              PropOf(properties2, n).units)

\* Stepper._insert_tendency_properties of base_components.py from the i-th
\* output property on: [err, msg, comp], comp being the component with the
\* dicts as the loop has left them
RECURSIVE Stepper_insert_tendency_properties_from(_, _)
Stepper_insert_tendency_properties_from(c, i) ==
    IF i > Len(c.output_properties) THEN [err |-> "", msg |-> "", comp |-> c]
    ELSE LET properties == c.output_properties[i]
             name == properties.name
             units == IF properties.units = "" THEN "s^-1"
                      ELSE properties.units \o " s^-1"
             written == [c EXCEPT !.diagnostic_properties =
                            DictSet(@, [name |-> get_tendency_name(name, c.name),
                                        dims |-> properties.dims,
                                        units |-> units, alias |-> ""])]
         IN  IF name \notin Names(c.input_properties)
             THEN Stepper_insert_tendency_properties_from(
                      [written EXCEPT !.input_properties =
                          Append(@, [name |-> name, dims |-> properties.dims,
                                     units |-> properties.units, alias |-> ""])],
                      i + 1)
             ELSE IF PropOf(c.input_properties, name).dims # properties.dims
             THEN [err |-> "InvalidPropertyDictError", msg |-> "tendency dims",
                   comp |-> written]
             ELSE IF PropOf(c.input_properties, name).units # properties.units
             THEN [err |-> "InvalidPropertyDictError", msg |-> "tendency units",
                   comp |-> written]
             ELSE Stepper_insert_tendency_properties_from(written, i + 1)

\* the checkers Stepper.__init__ of base_components.py constructs with
\* enable_checks: InputChecker, DiagnosticChecker and OutputChecker
Stepper_checkers(c) ==
    IF check_overlapping_aliases(c.input_properties).err # ""
    THEN check_overlapping_aliases(c.input_properties)
    ELSE IF has_name_with_incompatible_units(c.input_properties,
                                             c.diagnostic_properties)
    THEN Rejected("incompatible units")
    ELSE IF check_overlapping_aliases(c.diagnostic_properties).err # ""
    THEN check_overlapping_aliases(c.diagnostic_properties)
    ELSE IF check_overlapping_aliases(c.output_properties).err # ""
    THEN check_overlapping_aliases(c.output_properties)
    ELSE IF has_name_with_incompatible_units(c.input_properties,
                                             c.output_properties)
    THEN Rejected("incompatible units")
    ELSE Accepted

\* a component that uses tracers has to name their dimensions
check_tracer_dims(c) ==
    IF c.uses_tracers /\ c.tracer_dims = <<>>
    THEN [err |-> "ValueError", msg |-> "tracer_dims"]
    ELSE Accepted

\* Stepper.__init__ of base_components.py: [err, msg, comp], comp being the
\* component with its dicts as the constructor has left them; the
\* tendencies are inserted only with enable_checks
Stepper_new(c) ==
    IF ~c.enable_checks THEN check_tracer_dims(c) @@ [comp |-> c]
    ELSE IF Stepper_checkers(c).err # "" THEN Stepper_checkers(c) @@ [comp |-> c]
    ELSE IF ~c.tendencies_in_diagnostics THEN check_tracer_dims(c) @@ [comp |-> c]
    ELSE IF Stepper_insert_tendency_properties_from(c, 1).err # ""
    THEN Stepper_insert_tendency_properties_from(c, 1)
    ELSE check_tracer_dims(c)
             @@ [comp |-> Stepper_insert_tendency_properties_from(c, 1).comp]

\* what Stepper.__init__ raises, [err, msg]
Stepper_init(c) == [err |-> Stepper_new(c).err, msg |-> Stepper_new(c).msg]

\* the stepper a constructor that returned has left
Stepper_constructed(c) == Stepper_new(c).comp

\* Stepper.__init__ of steppers.py, which TendencyStepper.__init__ calls:
\* [err, msg].  With enable_checks the static checks run and the checker of
\* the inputs is then made without the component its constructor takes;
\* without it the operator of the inputs is asked of the factory under
\* "input_tendencies", a name no class is registered under.
TendencyStepper_init(c) ==
    IF c.enable_checks
    THEN IF StaticComponentChecker_check(c.input_properties,
                                         c.input_properties).err # ""
         THEN StaticComponentChecker_check(c.input_properties, c.input_properties)
         ELSE IF StaticComponentChecker_check(c.diagnostic_properties,
                                              c.input_properties).err # ""
         THEN StaticComponentChecker_check(c.diagnostic_properties,
                                           c.input_properties)
         ELSE IF StaticComponentChecker_check(c.output_properties,
                                              c.input_properties).err # ""
         THEN StaticComponentChecker_check(c.output_properties,
                                           c.input_properties)
         ELSE [err |-> "TypeError", msg |-> "InflowComponentChecker.factory"]
    ELSE IF check_tracer_dims(c).err # "" THEN check_tracer_dims(c)
    ELSE [err |-> "FactoryError", msg |-> "input_tendencies"]

\* TendencyStepper.__call__ of steppers.py on an instance of a class that
\* overrides __init__.  When that __init__ calls the one of TendencyStepper
\* the construction raises and leaves no instance to call: the outcome is
\* what the constructor raised.
TendencyStepper_call_of(init, comp, state) ==
    IF ~init.super_init
    THEN CompRaise(AttributeError("_TendencyStepper__initialized"), <<>>, <<>>)
    ELSE CompRaise(Raised(TendencyStepper_init(comp).err,
                          TendencyStepper_init(comp).msg, {}), <<>>, <<>>)

(***************************************************************************)
(* Instances of one component class.  A subclass declares its property     *)
(* dicts either as class attributes, and then every instance reads and     *)
(* writes the same dict objects, or builds them in its constructor, one    *)
(* set for each instance.  decl is [input_properties, tendency_properties, *)
(* diagnostic_properties].                                                 *)
(***************************************************************************)
\* the static checks of TendencyComponent.__init__ of core_components.py
TendencyComponent_check(decl, enable_checks) ==
    IF ~enable_checks THEN Accepted
    ELSE IF StaticComponentChecker_check(decl.input_properties,
                                         decl.input_properties).err # ""
    THEN StaticComponentChecker_check(decl.input_properties,
                                      decl.input_properties)
    ELSE IF TendencyStaticComponentChecker_check(decl.tendency_properties,
                                                 decl.input_properties).err # ""
    THEN TendencyStaticComponentChecker_check(decl.tendency_properties,
                                              decl.input_properties)
    ELSE StaticComponentChecker_check(decl.diagnostic_properties,
                                      decl.input_properties)

\* TendencyComponent.__init__ on the dicts the new instance reads: [err,
\* msg, decl]; the checks come first, then _insert_tendency_properties
\* writes into diagnostic_properties, and a class that uses tracers has to
\* name their dimensions
TendencyComponent_init(decl, tendencies_in_diagnostics, name, enable_checks) ==
    LET v == TendencyComponent_check(decl, enable_checks)
        t == IF v.err # "" THEN v ELSE check_tracer_dims(decl)
    IN  [err |-> t.err, msg |-> t.msg,
         decl |-> IF v.err = "" /\ tendencies_in_diagnostics
                  THEN [decl EXCEPT !.diagnostic_properties =
                           insert_tendency_properties(decl.tendency_properties,
                                                      name, @)]
                  ELSE decl]

(***************************************************************************)
(* Combining declarations (combine_properties.py).  A list built from a    *)
(* Python set has no defined order: the functions give the set of their    *)
(* possible outcomes, one for each order.                                  *)
(***************************************************************************)
DimsRaise == [err |-> "InvalidPropertyDictError", dims |-> <<>>]
DimsReturn(dims) == [err |-> "", dims |-> dims]

\* combine_dims: the outcomes [err, dims]
combine_dims(dims1, dims2) ==
    LET set1 == Range(dims1) \ {"*"}
        set2 == Range(dims2) \ {"*"}
        dims1_wildcard == "*" \in Range(dims1)
        dims2_wildcard == "*" \in Range(dims2)
        unmatched_dims == set1 \cup set2
        shared_dims == set2 \cap set2
    IN  IF dims1 = dims2 THEN {DimsReturn(dims1)}
        ELSE IF dims1_wildcard /\ dims2_wildcard
        THEN {DimsReturn(<<"*">> \o o) : o \in Orderings(unmatched_dims)}
        ELSE IF ~dims1_wildcard /\ ~dims2_wildcard
        THEN IF shared_dims # set1 \/ shared_dims # set2 THEN {DimsRaise}
             ELSE {DimsReturn(o) : o \in Orderings(unmatched_dims)}
        ELSE IF dims1_wildcard
        THEN IF shared_dims # set2 THEN {DimsRaise}
             ELSE {DimsReturn(o) : o \in Orderings(unmatched_dims)}
        ELSE IF shared_dims # set1 THEN {DimsRaise}
             ELSE {DimsReturn(o) : o \in Orderings(unmatched_dims)}

PropsRaise == [err |-> "InvalidPropertyDictError", props |-> <<>>]

\* the loops of combine_properties from the j-th property of the i-th
\* declaration on, with input_properties None: the outcomes [err, props]
RECURSIVE combine_properties_from(_, _, _, _)
combine_properties_from(property_list, i, j, return_dict) ==
    IF i > Len(property_list) THEN {[err |-> "", props |-> return_dict]}
    ELSE IF j > Len(property_list[i])
    THEN combine_properties_from(property_list, i + 1, 1, return_dict)
    ELSE LET properties == property_list[i][j]
             name == properties.name
         IN  IF name \notin Names(return_dict)
             THEN combine_properties_from(property_list, i, j + 1,
                                          Append(return_dict, properties))
             ELSE IF ~units_are_compatible(properties.units,
                                           PropOf(return_dict, name).units)
             THEN {PropsRaise}
             ELSE UNION {
                 IF d.err # "" THEN {PropsRaise}
                 ELSE combine_properties_from(
                          property_list, i, j + 1,
                          [k \in 1..Len(return_dict) |->
                              IF return_dict[k].name = name
                              THEN [return_dict[k] EXCEPT !.dims = d.dims]
                              ELSE return_dict[k]]) :
                 d \in combine_dims(PropOf(return_dict, name).dims,
                                    properties.dims)}

combine_properties(property_list) ==
    combine_properties_from(property_list, 1, 1, <<>>)

\* combine_properties([combine_properties([P1, P2]), P3])
combine_left(P1, P2, P3) ==
    UNION {IF r.err # "" THEN {PropsRaise}
           ELSE combine_properties(<<r.props, P3>>) :
           r \in combine_properties(<<P1, P2>>)}

\* combine_properties([P1, combine_properties([P2, P3])])
combine_right(P1, P2, P3) ==
    UNION {IF r.err # "" THEN {PropsRaise}
           ELSE combine_properties(<<P1, r.props>>) :
           r \in combine_properties(<<P2, P3>>)}

(***************************************************************************)
(* Bounds and inputs                                                       *)
(***************************************************************************)
MaxCalls == 4
MaxCallsLF == 3
MaxCallsRK == 2
Orders == 1..4

Timesteps == {1, 2}
TendVals == {FZero, FFromInt(1)}
Kinds == {"plain", "kilo", "bad"}
Progs ==
    [raises : {FALSE}, kind : Kinds, val : TendVals]
        \cup {[raises |-> TRUE, kind |-> "plain", val |-> FZero]}

\* the states a caller hands in: a full one and one that lacks "x"
FullState == [key \in {"time", "x", "y"} |->
                 IF key = "time" THEN FZero
                 ELSE IF key = "x" THEN FFromInt(1) ELSE FFromInt(7)]
CallerStates == {FullState, [key \in {"time", "y"} |-> FullState[key]]}

ABConfigs ==
    {[scheme |-> "AdamsBashforth", order |-> k, stages |-> 0,
      asselin_strength |-> FZero, alpha |-> FZero] : k \in Orders}
LFConfigs ==
    {[scheme |-> "Leapfrog", order |-> 0, stages |-> 0,
      asselin_strength |-> FRat(1, 20), alpha |-> a] :
        a \in {FRat(1, 2), FFromInt(1)}}
RKConfigs ==
    {[scheme |-> "SSPRungeKutta", order |-> 1, stages |-> n,
      asselin_strength |-> FZero, alpha |-> FZero] : n \in {2, 3}}

\* the components: the same inputs, three declarations of what is computed
\* (an aliased quantity, two quantities of different rank, a quantity that
\* is also an input with an alias)
Prop(name, dims, alias) ==
    [name |-> name, dims |-> dims, units |-> "m", alias |-> alias]

InputProps == <<Prop("x", <<"i">>, ""), Prop("y", <<"i", "j">>, "ya")>>
ComputedProps ==
    {<<Prop("d", <<"i">>, "da")>>,
     <<Prop("d", <<"i">>, ""), Prop("e", <<"i", "j">>, "")>>,
     <<Prop("y", <<"i", "j">>, "")>>}

Comp(kind, enable_checks, tendency_properties, diagnostic_properties, output_properties) ==
    [kind |-> kind, enable_checks |-> enable_checks,
     tendencies_in_diagnostics |-> FALSE, name |-> kind,
     uses_tracers |-> FALSE, tracer_dims |-> <<>>, tracer_names |-> <<>>,
     input_properties |-> InputProps,
     tendency_properties |-> tendency_properties,
     diagnostic_properties |-> diagnostic_properties,
     output_properties |-> output_properties]

\* the tendency declarations of the TendencyComponents that exist: those
\* the constructor accepts; the tendency of the input y is declared in
\* metres or in metres per second
TendencyProps(enable_checks) ==
    {ps \in ComputedProps
            \cup {<<[Prop("y", <<"i", "j">>, "") EXCEPT !.units = "m s^-1"]>>} :
        TendencyComponent_check(
            [input_properties |-> InputProps, tendency_properties |-> ps,
             diagnostic_properties |-> <<>>], enable_checks).err = ""}

\* the components that use tracers: a TendencyComponent and a Stepper that
\* compute the aliased quantity, with no tracer or one tracer registered
TracerDims == <<"tracer", "*">>
TracerNames == {<<>>, <<"q">>}
WithTracers(c) ==
    {[c EXCEPT !.uses_tracers = TRUE, !.tracer_dims = TracerDims,
               !.tracer_names = tn] : tn \in TracerNames}
TracerConfigs ==
    UNION {WithTracers(Comp("TendencyComponent", en, <<Prop("d", <<"i">>, "da")>>,
                            <<>>, <<>>))
           \cup WithTracers(Comp("Stepper", en, <<>>, <<>>,
                                 <<Prop("d", <<"i">>, "da")>>)) :
           en \in BOOLEAN}

\* a DiagnosticComponent and a TendencyComponent of core_components and a
\* Stepper of base_components; the latter two declare no diagnostics
CompConfigs ==
    {Comp("DiagnosticComponent", en, <<>>, ps, <<>>) :
        en \in BOOLEAN, ps \in ComputedProps}
    \cup UNION {{Comp("TendencyComponent", en, ps, <<>>, <<>>) :
                    ps \in TendencyProps(en)} : en \in BOOLEAN}
    \cup {Comp("Stepper", en, <<>>, <<>>, ps) :
        en \in BOOLEAN, ps \in ComputedProps}
    \cup TracerConfigs

NoComp == [Comp("none", FALSE, <<>>, <<>>, <<>>) EXCEPT !.input_properties = <<>>]

\* the component an instance is at a call, with the dicts it reads then
InstanceComp(inst, decl) ==
    [Comp("TendencyComponent", inst.enable_checks, decl.tendency_properties,
          decl.diagnostic_properties, <<>>)
        EXCEPT !.input_properties = decl.input_properties,
               !.tendencies_in_diagnostics = inst.tendencies_in_diagnostics,
               !.name = inst.name]
NoCfg == [scheme |-> "none", order |-> 0, stages |-> 0,
          asselin_strength |-> FZero, alpha |-> FZero]

\* the quantities a caller's state can hold for x and for y, and the
\* states: x under its name or absent, y under its name, under its alias
\* or absent
Field(dims, shape) == [dims |-> dims, shape |-> shape, units |-> "m"]

XFields == {Field(<<"i">>, <<2>>), Field(<<"i">>, <<3>>), Field(<<"k">>, <<2>>),
            Field(<<"k", "l">>, <<2, 1>>)}
YFields == {Field(<<"i", "j">>, <<2, 2>>), Field(<<"i", "j">>, <<3, 2>>),
            Field(<<"j", "i">>, <<2, 3>>), Field(<<"i">>, <<2>>)}
CompStates ==
    {st \in UNION {[K -> XFields \cup YFields] : K \in SUBSET {"x", "y", "ya"}} :
        /\ "x" \in DOMAIN st => st["x"] \in XFields
        /\ \A k \in DOMAIN st \cap {"y", "ya"} : st[k] \in YFields
        /\ ~({"y", "ya"} \subseteq DOMAIN st)}

\* what a kernel can return: at most MaxRawLen arrays, under declared
\* names, their aliases or an undeclared key
MaxRawLen == 2
Shapes == {<<2>>, <<3>>, <<2, 2>>, <<3, 2>>}
RawKeys(props) ==
    Names(props) \cup {"zz"}
        \cup UNION {wanted_aliases(props, InputProps)[n] : n \in Names(props)}
RawDicts(props) ==
    {raw \in UNION {[1..n -> [key : RawKeys(props), shape : Shapes]] :
                       n \in 0..MaxRawLen} :
        \A i, j \in 1..Len(raw) : i # j => raw[i].key # raw[j].key}
\* the components that put tendencies in their diagnostics: the
\* TendencyComponent of core_components, whose constructor has added the
\* tendency names to diagnostic_properties, and a TendencyStepper
TendencyConfigs ==
    UNION {{[Comp("TendencyComponent", en, ps,
                  insert_tendency_properties(ps, "TendencyComponent", <<>>),
                  <<>>)
                EXCEPT !.tendencies_in_diagnostics = TRUE] :
               ps \in TendencyProps(en)} : en \in BOOLEAN}
    \cup {[Comp("TendencyStepper", FALSE, <<>>, <<>>, ps)
              EXCEPT !.tendencies_in_diagnostics = tid] :
            tid \in BOOLEAN,
            ps \in {<<Prop("x", <<"i">>, "")>>,
                    <<Prop("x", <<"i">>, ""), Prop("y", <<"i", "j">>, "")>>}}

\* the diagnostics the kernel of such a TendencyComponent can return:
\* under the tendency names of its tendencies, of their aliases, or under
\* an undeclared key
TendencyShapes == {<<2>>, <<3, 2>>}
TendencyKeys(c) ==
    {get_tendency_name(k, c.name) :
        k \in RawKeys(c.tendency_properties) \ {"zz"}} \cup {"zz"}
TendencyDiagnostics(c) ==
    {raw \in UNION {[1..n -> [key : TendencyKeys(c), shape : TendencyShapes]] :
                       n \in 0..MaxRawLen} :
        \A i, j \in 1..Len(raw) : i # j => raw[i].key # raw[j].key}

\* what self._call of a TendencyStepper can do on a state: raise, as it does
\* when a quantity it steps is absent, or return diagnostics and the new
\* values of some of the quantities; the new value of x can also come in
\* seconds or with other dimensions than the old one
SteppedX(st) ==
    IF "x" \in DOMAIN st
    THEN {[st["x"] EXCEPT !.units = "s"], Field(<<"i">>, <<3>>),
          Field(<<"k">>, <<2>>)} \ {st["x"]}
    ELSE {}
SteppedDiagnostics(c) ==
    UNION {[K -> {Field(<<"i">>, <<2>>)}] :
              K \in SUBSET {get_tendency_name("x", c.name),
                            get_tendency_name("y", c.name), "zz"}}
Stepped(c, st) ==
    {[raises |-> TRUE, diagnostics |-> <<>>, new_state |-> <<>>]}
    \cup (IF Names(c.output_properties) \subseteq DOMAIN st
          THEN [raises : {FALSE}, diagnostics : SteppedDiagnostics(c),
                new_state : {[k \in K |-> st[k]] :
                                K \in SUBSET Names(c.output_properties)}]
               \cup {[raises |-> FALSE, diagnostics |-> <<>>,
                       new_state |-> [k \in {"x"} |-> x]] : x \in SteppedX(st)}
          ELSE {})

\* the arguments of the wildcard resolution: declarations of the
\* quantities a and b in either order, with and without the wildcard, and
\* states holding them with dimensions of length 2 or 3
WildDims == {<<"*">>, <<"i", "*">>, <<"*", "j">>, <<"i", "j">>, <<"i">>, <<"j">>}
WildLengths == {2, 3}
WildNames == {"a", "b"}
WildDeclarations ==
    UNION {{[i \in 1..Len(ns) |-> Prop(ns[i], ds[i], "")] :
               ds \in [1..Len(ns) -> WildDims]} :
           ns \in UNION {Orderings(S) : S \in SUBSET WildNames \ {{}}}}
WildFields ==
    UNION {{Field(ds, sh) : sh \in [1..Len(ds) -> WildLengths]} :
           ds \in {<<"i">>, <<"j">>, <<"i", "j">>, <<"j", "i">>, <<"i", "k">>}}
WildStates == UNION {[K -> WildFields] : K \in SUBSET WildNames}
WildArgs ==
    [fn : {"get_wildcard_matches_and_dim_lengths"}, state : WildStates,
     property_dictionary : WildDeclarations]

\* the arguments of the marshalling functions: the declarations above and
\* states whose quantities hold the numbers 1, 2, ... in C order, a in
\* metres, kilometres or seconds and b in metres
DataField(dims, shape, units) ==
    [dims |-> dims, shape |-> shape, units |-> units,
     data |-> [k \in 1..Product(shape) |-> k]]
DataFields(units) ==
    UNION {{DataField(ds, [j \in 1..Len(ds) |-> IF ds[j] = "i" THEN n ELSE 2], u) :
               n \in WildLengths, u \in units} :
           ds \in {<<"i">>, <<"i", "j">>, <<"j", "i">>, <<"i", "k">>, <<"k", "j", "i">>}}
MarshalStates ==
    {st \in UNION {[K -> DataFields({"m", "km", "s"})] : K \in SUBSET WildNames} :
        "b" \in DOMAIN st => st["b"].units = "m"}
MarshalArgs ==
    [fn : {"get_numpy_arrays_with_properties"}, state : MarshalStates,
     property_dictionary : WildDeclarations]

\* the quantity with its axes in the order dims: the element at an index
\* of field is at the same index, reordered, of the result
Reordered(field, dims) ==
    LET axis(i) == CHOOSE j \in 1..Len(field.dims) : field.dims[j] = dims[i]
        shape == [i \in 1..Len(dims) |-> field.shape[axis(i)]]
    IN  [dims |-> dims, shape |-> shape, units |-> field.units,
         data |-> [k \in 1..Product(shape) |->
                      LET idx == Unravel(k - 1, shape)
                      IN  field.data[
                              Ravel([j \in 1..Len(field.dims) |->
                                        idx[CHOOSE i \in 1..Len(dims) :
                                                axis(i) = j]],
                                    field.shape) + 1]]]

\* states in which b holds the values of a under any order of its axes
SameValueStates ==
    UNION {{[n \in WildNames |-> IF n = "a" THEN f ELSE Reordered(f, ds)] :
               ds \in Orderings(Range(f.dims))} :
           f \in DataFields({"m"})}
SameValueArgs ==
    [fn : {"get_numpy_arrays_with_properties"}, state : SameValueStates,
     property_dictionary : WildDeclarations]

\* the dims specifications and the declarations that are combined
CombineDimsSpecs ==
    {<<"*">>, <<"x">>, <<"*", "x">>, <<"x", "*">>, <<"x", "y">>, <<"y", "x">>,
     <<"*", "x", "y">>, <<"y">>}
CombineUnits == {"m", "km", "s"}
CombineDeclarations ==
    {<<[name |-> "a", dims |-> d, units |-> u, alias |-> ""]>> :
         d \in CombineDimsSpecs \ {<<"y">>, <<"y", "x">>}, u \in CombineUnits}
    \cup {<<[name |-> "b", dims |-> <<"x">>, units |-> "m", alias |-> ""],
            [name |-> "a", dims |-> d, units |-> "m", alias |-> ""]>> :
              d \in {<<"*">>, <<"x">>, <<"*", "x">>}}
    \cup {<<[name |-> "b", dims |-> <<"*">>, units |-> "m", alias |-> ""]>>}
CombineArgs ==
    {[fn |-> "combine_dims", dims1 |-> d1, dims2 |-> d2] :
         d1, d2 \in CombineDimsSpecs}
    \cup {[fn |-> "combine_properties", P1 |-> p1, P2 |-> p2, P3 |-> p3] :
              p1, p2, p3 \in CombineDeclarations}

\* states whose quantities carry data and units: x and y of the declared
\* dimensions, in metres, kilometres or seconds
UnitStates ==
    [x : {DataField(<<"i">>, <<2>>, u) : u \in {"m", "km", "s"}},
     y : {DataField(ds, <<2, 2>>, u) :
             ds \in {<<"i", "j">>, <<"j", "i">>}, u \in {"m", "km", "s"}}]

\* the declarations of the components that are constructed: with and
\* without aliases that collide within a declaration or across two
ConstructInputs ==
    {InputProps,
     <<Prop("x", <<"i">>, "xa"), Prop("y", <<"i", "j">>, "ya")>>,
     <<Prop("x", <<"i">>, "ya"), Prop("y", <<"i", "j">>, "ya")>>}
\* inputs whose first quantity takes any dimensions
WildcardInputs == <<Prop("x", <<"*">>, ""), Prop("y", <<"i", "j">>, "ya")>>
\* inputs whose wildcard takes a dimension another quantity declares
RepeatingInputs == <<Prop("x", <<"*">>, ""), Prop("y", <<"i", "*">>, "ya")>>
ConstructComputed ==
    {<<Prop("d", <<"i">>, "da")>>,
     <<Prop("x", <<"i">>, "xb")>>,
     <<Prop("d", <<"i">>, "ya")>>,
     <<Prop("d", <<"i">>, "da"), Prop("e", <<"i">>, "da")>>,
     <<Prop("x", <<"i">>, "xb"), Prop("d", <<"i">>, "xb")>>,
     <<Prop("d", <<"*", "i">>, "")>>}
ConstructConfigs ==
    {[Comp("DiagnosticComponent", en, <<>>, ps, <<>>)
         EXCEPT !.input_properties = ins] :
        en \in BOOLEAN, ps \in ConstructComputed, ins \in ConstructInputs}
    \cup {[Comp("Stepper", en, <<>>, <<>>, ps)
              EXCEPT !.input_properties = ins] :
        en \in BOOLEAN, ps \in ConstructComputed, ins \in ConstructInputs}
    \cup {[Comp("Stepper", en, <<>>, <<>>, <<Prop("d", <<"*", "i">>, "")>>)
              EXCEPT !.input_properties = ins] :
        en \in BOOLEAN, ins \in {WildcardInputs, RepeatingInputs}}
    \cup {[Comp("Stepper", en, <<>>, ds, ps)
              EXCEPT !.tendencies_in_diagnostics = TRUE] :
        en \in BOOLEAN,
        ds \in {<<>>, <<Prop("d", <<"i">>, "da"), Prop("e", <<"i">>, "da")>>},
        ps \in {<<Prop("x", <<"i">>, "")>>, <<Prop("d", <<"i">>, "")>>,
                <<Prop("y", <<"i">>, "")>>}}
    \cup {[Comp("Stepper", en, <<>>, <<>>, <<Prop("d", <<"i">>, "da")>>)
              EXCEPT !.uses_tracers = TRUE] : en \in BOOLEAN}

\* the classes instantiated: no diagnostics of their own and the tendency
\* of d, with or without a wildcard; at most MaxInstances instances
MaxInstances == 2
ClassDecls ==
    {[input_properties |-> InputProps, tendency_properties |-> <<Prop("d", ds, "")>>,
      diagnostic_properties |-> <<>>, uses_tracers |-> FALSE,
      tracer_dims |-> <<>>] : ds \in {<<"i">>, <<"*", "i">>}}
InstanceNames == {"a", "b"}
InstanceStates ==
    {[x |-> Field(<<"i">>, <<2>>), y |-> Field(<<"i", "j">>, <<2, 2>>)],
     [x |-> Field(<<"i">>, <<2>>)]}
\* kernels that return the declared tendency and either no diagnostics or
\* one array for each declared diagnostic
InstanceKernels(decl) ==
    [raises : {FALSE},
     tendencies : {[j \in 1..Len(decl.tendency_properties) |->
                      [key |-> decl.tendency_properties[j].name, shape |-> <<2>>]]},
     diagnostics : {<<>>,
                    [j \in 1..Len(decl.diagnostic_properties) |->
                        [key |-> decl.diagnostic_properties[j].name,
                         shape |-> <<2>>]]},
     new_state : {<<>>}]

NoKernel == [raises |-> TRUE, tendencies |-> <<>>, diagnostics |-> <<>>,
             new_state |-> <<>>]
StrayDiagnostics == {<<>>, <<[key |-> "zz", shape |-> <<2>>]>>}
\* the diagnostics the kernel of a Stepper that puts tendencies in its
\* diagnostics can return besides: one array for each declared diagnostic
TendencyDiagnosticsOf(c) ==
    LET raw == [j \in 1..Len(c.diagnostic_properties) |->
                   [key |-> get_alias_or_name(c.diagnostic_properties[j].name,
                                              c.diagnostic_properties,
                                              c.input_properties),
                    shape |-> <<2>>]]
    IN  IF /\ c.kind = "Stepper" /\ c.tendencies_in_diagnostics
           /\ \A i, j \in 1..Len(raw) : i # j => raw[i].key # raw[j].key
        THEN {raw} ELSE {}
KernelsWithoutTracers(c) ==
    {NoKernel}
    \cup (IF c.kind = "DiagnosticComponent"
          THEN [raises : {FALSE}, tendencies : {<<>>},
                diagnostics : RawDicts(c.diagnostic_properties),
                new_state : {<<>>}]
          ELSE IF c.kind = "TendencyComponent" /\ c.tendencies_in_diagnostics
          THEN [raises : {FALSE},
                tendencies : {raw \in RawDicts(c.tendency_properties) :
                                 Keys(raw) = Names(c.tendency_properties)},
                diagnostics : TendencyDiagnostics(c), new_state : {<<>>}]
          ELSE IF c.kind = "TendencyComponent"
          THEN [raises : {FALSE}, tendencies : RawDicts(c.tendency_properties),
                diagnostics : StrayDiagnostics, new_state : {<<>>}]
          ELSE [raises : {FALSE}, tendencies : {<<>>},
                diagnostics : StrayDiagnostics \cup TendencyDiagnosticsOf(c),
                new_state : RawDicts(c.output_properties)])

\* the kernel of a component that uses tracers returns the tracer array
\* with the tendencies, or with the new state, or leaves it out
Kernels(c) ==
    KernelsWithoutTracers(c)
    \cup (IF ~c.uses_tracers THEN {}
          ELSE {IF c.kind = "Stepper"
                THEN [k EXCEPT !.new_state =
                         Append(@, [key |-> "tracers",
                                    shape |-> TracerPacker_pack(c.tracer_names)])]
                ELSE [k EXCEPT !.tendencies =
                         Append(@, [key |-> "tracers",
                                    shape |-> TracerPacker_pack(c.tracer_names)])] :
                k \in KernelsWithoutTracers(c) \ {NoKernel}})

VARIABLES
    cfg,              \* the integrator constructed: scheme and its parameters
    timestep,         \* self._timestep (of the inner Euler stepper for SSPRK)
    tendencies_list,  \* self._tendencies_list
    old_state,        \* self._old_state of Leapfrog
    state,            \* the caller's state dict
    res,              \* what the last call returned or raised
    pre,              \* the instance and the caller's state before that call
    ncalls,           \* calls made so far
    nok,              \* calls that returned
    first_dt,         \* the timestep of the first call
    evals,            \* the tendencies of the calls that returned, in order
    comp,             \* the component constructed: its declarations
    ccall,            \* the last call of the component and what came of it
    args,             \* the arguments of a library function called directly
    ret,              \* what that call returned or raised
    objs              \* a component class: its attributes and its instances

vars == <<cfg, timestep, tendencies_list, old_state, state, res, pre,
          ncalls, nok, first_dt, evals, comp, ccall, args, ret, objs>>

NoCall == [Raise("none", "", None, <<>>, NoOld, EmptyDict) EXCEPT !.order = 0]
NoPre == [timestep |-> None, tendencies_list |-> <<>>, old_state |-> NoOld,
          state |-> EmptyDict, dt |-> None]
NoArgs == [fn |-> "none"]
NoRet == [done |-> FALSE]
NoObjs == [style |-> "none"]
NoCompCall == [called |-> FALSE, state |-> <<>>, kernel |-> NoKernel,
               res |-> CompReturn(<<>>, <<>>, <<>>, <<>>, <<>>)]

InitWith(configs) ==
    /\ cfg \in configs
    /\ timestep = None
    /\ tendencies_list = <<>>
    /\ old_state = NoOld
    /\ state = FullState
    /\ res = NoCall
    /\ pre = NoPre
    /\ ncalls = 0
    /\ nok = 0
    /\ first_dt = None
    /\ evals = <<>>
    /\ comp = NoComp
    /\ ccall = NoCompCall
    /\ args = NoArgs
    /\ ret = NoRet /\ objs = NoObjs

\* the dicts a caller can pass: the one of the last call again, the new
\* state the last call returned, or another one
Args ==
    {state} \cup CallerStates
        \cup (IF res.outcome = "ok" THEN {res.new_state} ELSE {})

CallLimit ==
    IF cfg.scheme = "SSPRungeKutta" THEN MaxCallsRK
    ELSE IF cfg.scheme = "Leapfrog" THEN MaxCallsLF
    ELSE MaxCalls

\* the bookkeeping common to the three schemes' calls
Record(r, arg, dt) ==
    /\ pre' = [timestep |-> timestep, tendencies_list |-> tendencies_list,
               old_state |-> old_state, state |-> arg, dt |-> dt]
    /\ res' = r
    /\ timestep' = r.timestep
    /\ tendencies_list' = r.tendencies_list
    /\ state' = r.state
    /\ ncalls' = ncalls + 1
    /\ nok' = IF r.outcome = "ok" THEN nok + 1 ELSE nok
    /\ first_dt' = IF ncalls = 0 THEN dt ELSE first_dt
    /\ evals' = IF r.outcome = "ok" THEN Append(evals, r.tend) ELSE evals
    /\ UNCHANGED <<cfg, comp, ccall, args, ret, objs>>

CallAdamsBashforth ==
    /\ cfg.scheme = "AdamsBashforth"
    /\ ncalls < CallLimit
    /\ \E arg \in Args, dt \in Timesteps, prog \in Progs :
          \E r \in {TendencyStepper_call(
                        AdamsBashforth_call(cfg.order, timestep,
                                            tendencies_list, arg, dt, prog))} :
              /\ Record(r, arg, dt)
              /\ UNCHANGED old_state

CallLeapfrog ==
    /\ cfg.scheme = "Leapfrog"
    /\ ncalls < CallLimit
    /\ \E arg \in Args, dt \in Timesteps, prog \in Progs :
          \E r \in {TendencyStepper_call(
                        Leapfrog_call(cfg.asselin_strength, cfg.alpha,
                                      timestep, old_state, arg, dt, prog))} :
              /\ Record(r, arg, dt)
              /\ old_state' = r.old_state

\* the answers of the composite in the stages of one SSPRungeKutta call:
\* stage `fail` raises (0 for none), the stages before it return vals
StageProgs(kind, fail, vals) ==
    [i \in 1..3 |-> [raises |-> (i = fail), kind |-> kind, val |-> vals[i]]]

CallSSPRungeKutta ==
    /\ cfg.scheme = "SSPRungeKutta"
    /\ ncalls < CallLimit
    /\ \E arg \in Args, dt \in Timesteps, kind \in Kinds,
          fail \in 0..cfg.stages, vals \in [1..3 -> TendVals] :
          /\ \A i \in 1..3 :
                (i > cfg.stages \/ (fail # 0 /\ i >= fail)) => vals[i] = FZero
          /\ \E r \in {TendencyStepper_call(
                           SSPRungeKutta_call(
                               cfg.stages, timestep, tendencies_list, arg, dt,
                               StageProgs(kind, fail, vals)))} :
                /\ Record(r, arg, dt)
                /\ UNCHANGED old_state

Init == InitWith(ABConfigs \cup LFConfigs \cup RKConfigs)

Next ==
    \/ CallAdamsBashforth
    \/ CallLeapfrog
    \/ CallSSPRungeKutta

InitAB == InitWith(ABConfigs)
NextAB == CallAdamsBashforth
SpecAB == InitAB /\ [][NextAB]_vars

InitLF == InitWith(LFConfigs)
NextLF == CallLeapfrog
SpecLF == InitLF /\ [][NextLF]_vars

InitRK == InitWith(RKConfigs)
NextRK == CallSSPRungeKutta
SpecRK == InitRK /\ [][NextRK]_vars

\* the bookkeeping of a component call; a kernel that is not invoked
\* returns nothing
RecordCall(st, kernel, r) ==
    /\ "array_call" \notin Range(r.trace) => kernel = NoKernel
    /\ ccall' = [called |-> TRUE, state |-> st, kernel |-> kernel, res |-> r]
    /\ UNCHANGED <<cfg, timestep, tendencies_list, old_state, state, res, pre,
                   ncalls, nok, first_dt, evals, comp, args, ret, objs>>

\* A component keeps nothing from one call to the next, so each is followed
\* through one call.
CallDiagnosticComponent ==
    /\ comp.kind = "DiagnosticComponent"
    /\ ~ccall.called
    /\ \E st \in CompStates, kernel \in Kernels(comp) :
          \E r \in {DiagnosticComponent_call(comp, st, kernel)} :
              RecordCall(st, kernel, r)

CallTendencyComponent ==
    /\ comp.kind = "TendencyComponent"
    /\ ~ccall.called
    /\ \E st \in CompStates, kernel \in Kernels(comp) :
          \E r \in {TendencyComponent_call(comp, st, kernel)} :
              RecordCall(st, kernel, r)

CallStepper ==
    /\ comp.kind = "Stepper"
    /\ ~ccall.called
    /\ \E st \in CompStates, kernel \in Kernels(comp) :
          \E set_order \in SetOrders(st, comp.input_properties) :
              \E r \in {Stepper_call(comp, st, kernel, set_order)} :
                  RecordCall(st, kernel, r)

InitComp ==
    /\ cfg = NoCfg
    /\ timestep = None
    /\ tendencies_list = <<>>
    /\ old_state = NoOld
    /\ state = EmptyDict
    /\ res = NoCall
    /\ pre = NoPre
    /\ ncalls = 0
    /\ nok = 0
    /\ first_dt = None
    /\ evals = <<>>
    /\ comp \in CompConfigs
    /\ ccall = NoCompCall
    /\ args = NoArgs
    /\ ret = NoRet /\ objs = NoObjs

NextComp ==
    \/ CallDiagnosticComponent
    \/ CallTendencyComponent
    \/ CallStepper

SpecComp == InitComp /\ [][NextComp]_vars

\* the calls of the components that put tendencies in their diagnostics
CallTendencyStepper ==
    /\ comp.kind = "TendencyStepper"
    /\ ~ccall.called
    /\ \E st \in CompStates :
          \E stepped \in Stepped(comp, st) :
              \E r \in {TendencyStepper_call_stepped(comp, st, stepped)} :
                  /\ ccall' = [called |-> TRUE, state |-> st,
                               kernel |-> stepped, res |-> r]
                  /\ UNCHANGED <<cfg, timestep, tendencies_list, old_state,
                                 state, res, pre, ncalls, nok, first_dt, evals,
                                 comp, args, ret, objs>>

InitTend ==
    /\ cfg = NoCfg
    /\ timestep = None
    /\ tendencies_list = <<>>
    /\ old_state = NoOld
    /\ state = EmptyDict
    /\ res = NoCall
    /\ pre = NoPre
    /\ ncalls = 0
    /\ nok = 0
    /\ first_dt = None
    /\ evals = <<>>
    /\ comp \in TendencyConfigs
    /\ ccall = NoCompCall
    /\ args = NoArgs
    /\ ret = NoRet /\ objs = NoObjs

NextTend ==
    \/ CallTendencyComponent
    \/ CallTendencyStepper

SpecTend == InitTend /\ [][NextTend]_vars

\* no integrator and no component is constructed where a library function
\* is called directly
NoInstance ==
    /\ cfg = NoCfg
    /\ timestep = None
    /\ tendencies_list = <<>>
    /\ old_state = NoOld
    /\ state = EmptyDict
    /\ res = NoCall
    /\ pre = NoPre
    /\ ncalls = 0
    /\ nok = 0
    /\ first_dt = None
    /\ evals = <<>>
    /\ comp = NoComp
    /\ ccall = NoCompCall

Returns(out) ==
    /\ ret' = [done |-> TRUE, out |-> out]
    /\ UNCHANGED <<cfg, timestep, tendencies_list, old_state, state, res, pre,
                   ncalls, nok, first_dt, evals, comp, ccall, args, objs>>

GetWildcardMatches ==
    /\ args.fn = "get_wildcard_matches_and_dim_lengths"
    /\ ~ret.done
    /\ Returns(get_wildcard_matches_and_dim_lengths(
                   args.state, args.property_dictionary))

InitWild == NoInstance /\ args \in WildArgs /\ ret = NoRet /\ objs = NoObjs
NextWild == GetWildcardMatches
SpecWild == InitWild /\ [][NextWild]_vars

\* marshalling a state in, and marshalling the arrays obtained back out
\* through the same declaration
GetNumpyArrays ==
    /\ args.fn = "get_numpy_arrays_with_properties"
    /\ ~ret.done
    /\ Returns(get_numpy_arrays_with_properties(
                   args.state, args.property_dictionary))

RestoreDataArrays ==
    /\ args.fn = "get_numpy_arrays_with_properties"
    /\ ret.done
    /\ ret.out.err = ""
    /\ "restored" \notin DOMAIN ret
    /\ ret' = [done |-> TRUE, out |-> ret.out,
               restored |-> restore_dataarray(
                                ret.out.raw, args.property_dictionary,
                                args.state, args.property_dictionary)]
    /\ UNCHANGED <<cfg, timestep, tendencies_list, old_state, state, res, pre,
                   ncalls, nok, first_dt, evals, comp, ccall, args, objs>>

InitSameValues ==
    NoInstance /\ args \in SameValueArgs /\ ret = NoRet /\ objs = NoObjs
NextSameValues == GetNumpyArrays
SpecSameValues == InitSameValues /\ [][NextSameValues]_vars

InitMarshal == NoInstance /\ args \in MarshalArgs /\ ret = NoRet /\ objs = NoObjs
NextMarshal ==
    \/ GetNumpyArrays
    \/ RestoreDataArrays
SpecMarshal == InitMarshal /\ [][NextMarshal]_vars

Spec == Init /\ [][Next]_vars

\* combining two dims specifications, and three declarations grouped from
\* the left
CombineDims ==
    /\ args.fn = "combine_dims"
    /\ ~ret.done
    /\ \E out \in combine_dims(args.dims1, args.dims2) : Returns(out)

CombineProperties ==
    /\ args.fn = "combine_properties"
    /\ ~ret.done
    /\ \E out \in combine_left(args.P1, args.P2, args.P3) : Returns(out)

InitCombine == NoInstance /\ args \in CombineArgs /\ ret = NoRet /\ objs = NoObjs
NextCombine == CombineDims \/ CombineProperties
SpecCombine == InitCombine /\ [][NextCombine]_vars

\* a call of a DiagnosticComponent on a state with data and units; the
\* arrays handed to the kernel are kept
CallOnUnits ==
    /\ comp.kind = "DiagnosticComponent"
    /\ ~ccall.called
    /\ \E st \in {[k \in {"x", "y"} |-> s[k]] : s \in UnitStates},
          kernel \in Kernels(comp) :
          \E r \in {DiagnosticComponent_call(comp, st, kernel)} :
              /\ "array_call" \notin Range(r.trace) => kernel = NoKernel
              /\ ccall' = [called |-> TRUE, state |-> st, kernel |-> kernel,
                           res |-> r]
              /\ ret' = [done |-> TRUE,
                         out |-> IF "array_call" \in Range(r.trace)
                                 THEN get_ndarray_dict_data(
                                          comp.input_properties,
                                          get_aliases(comp.input_properties,
                                                      comp.input_properties),
                                          st)
                                 ELSE <<>>]
              /\ UNCHANGED <<cfg, timestep, tendencies_list, old_state, state,
                             res, pre, ncalls, nok, first_dt, evals, comp, args, objs>>

InitUnits == InitComp /\ comp.kind = "DiagnosticComponent"
NextUnits == CallOnUnits
SpecUnits == InitUnits /\ [][NextUnits]_vars

\* a component is constructed and, if the constructor returned, called
Construct ==
    /\ args.fn = "__init__"
    /\ ~ret.done
    /\ Returns(IF comp.kind = "DiagnosticComponent"
               THEN DiagnosticComponent_init(comp) ELSE Stepper_init(comp))

CallConstructed ==
    /\ args.fn = "__init__"
    /\ ret.done
    /\ ret.out.err = ""
    /\ ~ccall.called
    /\ \E called \in {IF comp.kind = "DiagnosticComponent" THEN comp
                        ELSE Stepper_constructed(comp)} :
          \E st \in CompStates, kernel \in Kernels(called) :
              \E set_order \in SetOrders(st, called.input_properties) :
                  \E r \in {IF comp.kind = "DiagnosticComponent"
                             THEN DiagnosticComponent_call(called, st, kernel)
                             ELSE Stepper_call(called, st, kernel, set_order)} :
                      RecordCall(st, kernel, r)

InitConstruct ==
    /\ cfg = NoCfg
    /\ timestep = None
    /\ tendencies_list = <<>>
    /\ old_state = NoOld
    /\ state = EmptyDict
    /\ res = NoCall
    /\ pre = NoPre
    /\ ncalls = 0
    /\ nok = 0
    /\ first_dt = None
    /\ evals = <<>>
    /\ comp \in ConstructConfigs
    /\ ccall = NoCompCall
    /\ args = [fn |-> "__init__"]
    /\ ret = NoRet /\ objs = NoObjs
NextConstruct == Construct \/ CallConstructed
SpecConstruct == InitConstruct /\ [][NextConstruct]_vars

\* one call of a new SSPRungeKutta whose components give the tendency c
\* of "x" in every stage
ConstantTendencyArgs ==
    [fn : {"SSPRungeKutta"}, stages : {2, 3},
     state : {[FullState EXCEPT !["x"] = FFromInt(v)] : v \in 0..3},
     c : {FFromInt(v) : v \in -1..2}, dt : {1, 2, 3}]

CallOnConstantTendency ==
    /\ args.fn = "SSPRungeKutta"
    /\ ~ret.done
    /\ Returns(TendencyStepper_call(
                   SSPRungeKutta_call(
                       args.stages, None, <<>>, args.state, args.dt,
                       StageProgs("plain", 0, [i \in 1..3 |-> args.c]))))

InitConstantTendency ==
    /\ NoInstance
    /\ args \in ConstantTendencyArgs
    /\ ret = NoRet /\ objs = NoObjs
NextConstantTendency == CallOnConstantTendency
SpecConstantTendency == InitConstantTendency /\ [][NextConstantTendency]_vars

\* the registry of constants is written and read
ConstantNames == {"k", "a1", "a2", "a3"}
AliasTables ==
    {<<>>,
     [n \in {"a1"} |-> "k"],
     [n \in {"a1", "a2"} |-> IF n = "a2" THEN "a1" ELSE "k"],
     [n \in {"a1", "a2", "a3"} |->
         IF n = "a3" THEN "a2" ELSE IF n = "a2" THEN "a1" ELSE "k"],
     [n \in {"a1", "a2"} |-> IF n = "a2" THEN "a1" ELSE "a2"],
     [n \in {"a1", "a3"} |-> IF n = "a1" THEN "k" ELSE "a3"],
     [n \in {"a1", "a2", "a3"} |-> IF n = "a3" THEN "k" ELSE "a3"]}
ConstantValues == {1, 2}
ConstantUnits == {"m", "km", "s", "xx"}

\* the registry is changed at most MaxRegistryChanges times, while it
\* holds at most MaxConstantsAtChange constants, and at most
\* MaxSetsAfterChange constants are set afterwards
MaxRegistryChanges == 1
MaxConstantsAtChange == 1
MaxSetsAfterChange == 1

SetConstant ==
    /\ objs.style = "constants"
    /\ objs.changes > 0 => objs.sets_after < MaxSetsAfterChange
    /\ \E name \in ConstantNames, value \in ConstantValues,
          units \in ConstantUnits :
          \E r \in {set_constant(objs.constant_aliases, objs.constants,
                                  name, value, units)} :
              /\ objs' = [objs EXCEPT !.constants = r.constants,
                                      !.sets_after = IF objs.changes > 0
                                                     THEN @ + 1 ELSE @]
              /\ args' = [fn |-> "set_constant", name |-> name,
                          value |-> value, units |-> units, err |-> r.err]
              /\ ret' = NoRet
    /\ UNCHANGED <<cfg, timestep, tendencies_list, old_state, state, res, pre,
                   ncalls, nok, first_dt, evals, comp, ccall>>

GetConstant ==
    /\ objs.style = "constants"
    /\ ~ret.done
    /\ \E name \in ConstantNames, units \in {"m", "km", "s", "W m^-2"} :
          /\ \/ \A n \in DOMAIN objs.constants :
                   units \in {objs.constants[n].units, "m"}
             \/ units = "W m^-2" /\ args.fn = "reset_constants"
          /\ ret' = [done |-> TRUE,
                     out |-> [name |-> name, units |-> units]
                             @@ get_constant(objs.constant_aliases,
                                             objs.constants, name, units)]
    /\ UNCHANGED <<cfg, timestep, tendencies_list, old_state, state, res, pre,
                   ncalls, nok, first_dt, evals, comp, ccall, args, objs>>

\* the condensible set_condensible_name is called with; "water" is the one
\* reset_constants sets
CondensibleNames == {"ice"}

ChangeAllowed ==
    /\ objs.style = "constants"
    /\ objs.changes < MaxRegistryChanges
    /\ Cardinality(DOMAIN objs.constants) <= MaxConstantsAtChange

SetCondensibleName ==
    /\ ChangeAllowed
    /\ \E name \in CondensibleNames :
          /\ objs' = [objs EXCEPT !.constant_aliases =
                         set_condensible_name(@, name),
                                  !.changes = @ + 1]
          /\ args' = [fn |-> "set_condensible_name", name |-> name]
          /\ ret' = NoRet
    /\ UNCHANGED <<cfg, timestep, tendencies_list, old_state, state, res, pre,
                   ncalls, nok, first_dt, evals, comp, ccall>>

ResetConstants ==
    /\ ChangeAllowed
    /\ objs' = [objs EXCEPT !.constants = reset_constants.constants,
                            !.constant_aliases = reset_constants.constant_aliases,
                            !.changes = @ + 1]
    /\ args' = [fn |-> "reset_constants"]
    /\ ret' = NoRet
    /\ UNCHANGED <<cfg, timestep, tendencies_list, old_state, state, res, pre,
                   ncalls, nok, first_dt, evals, comp, ccall>>

InitConstants ==
    /\ NoInstance
    /\ args = NoArgs
    /\ ret = NoRet
    /\ \E t \in AliasTables :
          objs = [style |-> "constants", constant_aliases |-> t,
                  constants |-> <<>>, changes |-> 0, sets_after |-> 0]
NextConstants ==
    \/ SetConstant
    \/ GetConstant
    \/ SetCondensibleName
    \/ ResetConstants
SpecConstants == InitConstants /\ [][NextConstants]_vars

\* an instance of a class that overrides __init__ is called
SubclassInits ==
    {i \in [fn : {"subclass __init__"}, super_init : BOOLEAN,
            own_enable_checks : {"unset", "True", "False"}] :
        i.super_init => i.own_enable_checks = "unset"}
SubclassConfigs ==
    CompConfigs \cup {c \in TendencyConfigs : c.kind = "TendencyStepper"}

CallSubclassStepper ==
    /\ comp.kind = "Stepper"
    /\ ~ccall.called
    /\ \E st \in CompStates, kernel \in Kernels(comp) :
          \E set_order \in SetOrders(st, comp.input_properties) :
              \E r \in {Stepper_call_of(args, comp, st, kernel, set_order)} :
                  RecordCall(st, kernel, r)

CallSubclassComponent ==
    /\ comp.kind \in {"DiagnosticComponent", "TendencyComponent"}
    /\ ~ccall.called
    /\ \E st \in CompStates, kernel \in Kernels(comp) :
          \E r \in {Component_call_of(args, comp, st, kernel)} :
              RecordCall(st, kernel, r)

CallSubclassTendencyStepper ==
    /\ comp.kind = "TendencyStepper"
    /\ ~ccall.called
    /\ \E st \in CompStates :
          \E r \in {TendencyStepper_call_of(args, comp, st)} :
              /\ ccall' = [called |-> TRUE, state |-> st,
                           kernel |-> NoKernel, res |-> r]
              /\ UNCHANGED <<cfg, timestep, tendencies_list, old_state,
                             state, res, pre, ncalls, nok, first_dt, evals,
                             comp, args, ret, objs>>

InitSubclass ==
    /\ cfg = NoCfg
    /\ timestep = None
    /\ tendencies_list = <<>>
    /\ old_state = NoOld
    /\ state = EmptyDict
    /\ res = NoCall
    /\ pre = NoPre
    /\ ncalls = 0
    /\ nok = 0
    /\ first_dt = None
    /\ evals = <<>>
    /\ comp \in SubclassConfigs
    /\ ccall = NoCompCall
    /\ args \in SubclassInits
    /\ ret = NoRet /\ objs = NoObjs
NextSubclass ==
    \/ CallSubclassStepper
    \/ CallSubclassComponent
    \/ CallSubclassTendencyStepper
SpecSubclass == InitSubclass /\ [][NextSubclass]_vars

\* instances of one class are constructed, and one of them is called
InstanceDecl(i) ==
    IF objs.style = "class attribute" THEN objs.cls ELSE objs.insts[i].own

ConstructInstance ==
    /\ objs.style # "none"
    /\ ~objs.call.called
    /\ Len(objs.insts) < MaxInstances
    /\ \E name \in InstanceNames, tid \in BOOLEAN, en \in BOOLEAN :
          \E r \in {TendencyComponent_init(
                         IF objs.style = "class attribute" THEN objs.cls
                         ELSE objs.declared, tid, name, en)} :
              objs' = [objs EXCEPT
                  !.cls = IF objs.style = "class attribute" THEN r.decl ELSE @,
                  !.insts = Append(@,
                      [name |-> name, tendencies_in_diagnostics |-> tid,
                       enable_checks |-> en, err |-> r.err,
                       alone |-> TendencyComponent_init(objs.declared, tid,
                                                        name, en).err,
                       own |-> r.decl, at_init |-> r.decl])]
    /\ UNCHANGED <<cfg, timestep, tendencies_list, old_state, state, res, pre,
                   ncalls, nok, first_dt, evals, comp, ccall, args, ret>>

CallInstance ==
    /\ objs.style # "none"
    /\ ~objs.call.called
    /\ \E i \in 1..Len(objs.insts), st \in InstanceStates :
          /\ objs.insts[i].err = ""
          /\ \E kernel \in InstanceKernels(InstanceDecl(i))
                              \cup InstanceKernels(objs.insts[i].at_init) :
                objs' = [objs EXCEPT !.call =
                    [called |-> TRUE, inst |-> i,
                     res |-> TendencyComponent_call(
                                 InstanceComp(objs.insts[i], InstanceDecl(i)),
                                 st, kernel),
                     expected |-> TendencyComponent_call(
                                      InstanceComp(objs.insts[i],
                                                   objs.insts[i].at_init),
                                      st, kernel)]]
    /\ UNCHANGED <<cfg, timestep, tendencies_list, old_state, state, res, pre,
                   ncalls, nok, first_dt, evals, comp, ccall, args, ret>>

InitInstances ==
    /\ NoInstance
    /\ args = NoArgs
    /\ ret = NoRet
    /\ \E style \in {"class attribute", "instance attribute"},
          decl \in ClassDecls :
          objs = [style |-> style, declared |-> decl, cls |-> decl,
                  insts |-> <<>>, call |-> [called |-> FALSE]]
NextInstances == ConstructInstance \/ CallInstance
SpecInstances == InitInstances /\ [][NextInstances]_vars

(***************************************************************************)
(* Properties                                                              *)
(***************************************************************************)
One == FFromInt(1)
Two == FFromInt(2)
Called == ncalls >= 1
Returned == res.outcome = "ok"
TimestepError == res.outcome = "ValueError" /\ res.cause = "timestep"

\* C1 (as amended): in each of the three schemes the first call fixes the
\* timestep; a later call raises the constant-timestep ValueError exactly
\* when its timestep differs from the first call's, and the first call
\* never raises it.
C1_ConstantTimestep ==
    Called =>
        /\ timestep = first_dt
        /\ TimestepError <=> (ncalls >= 2 /\ pre.dt # first_dt)

\* C1 as stated: a later call raises ValueError when its timestep differs
\* from dt, and a call with the same dt never raises ValueError.
C1_NeverValueErrorOnSameTimestep ==
    ncalls >= 2 => (res.outcome = "ValueError" <=> pre.dt # first_dt)

C1_Witness ==
    /\ ncalls >= 2
    /\ cfg.scheme = "SSPRungeKutta"
    /\ TimestepError
    /\ pre.dt # first_dt

\* C2 as stated: the n-th call of an Adams-Bashforth integrator of order k
\* that returns uses the formula of order min(n, k).
C2_OrderOfNthStep ==
    (cfg.scheme = "AdamsBashforth" /\ Returned) =>
        res.order = Min(nok, cfg.order)

\* C3 as stated: when the n-th step is computed the history holds the
\* tendencies of the last min(n, k) calls, oldest first, and after any
\* sequence of calls the history holds at most k entries.
C3_HistoryBounded ==
    cfg.scheme = "AdamsBashforth" =>
        /\ Len(tendencies_list) <= cfg.order
        /\ Returned =>
              Append(pre.tendencies_list, res.tend) =
                  SubSeq(evals, nok + 1 - Min(nok, cfg.order), nok)

\* C4: a Leapfrog call that finds no retained state returns the forward
\* Euler step state + tendency * dt, and that is the case exactly for the
\* first call that returns; every later one computes, before filtering,
\* retained state + 2 * tendency * dt.
C4_LeapfrogStep ==
    (cfg.scheme = "Leapfrog" /\ Returned) =>
        /\ pre.old_state.some <=> nok >= 2
        /\ ~pre.old_state.some =>
              res.new_state["x"] =
                  FAdd(pre.state["x"],
                       FMul(res.tend["x"], total_seconds(pre.dt)))
        /\ pre.old_state.some =>
              res.unfiltered["x"] =
                  FAdd(pre.old_state.st["x"],
                       FMul(FMul(Two, res.tend["x"]), total_seconds(pre.dt)))

C4_Witness ==
    /\ cfg.scheme = "Leapfrog"
    /\ Returned
    /\ nok >= 3
    /\ pre.old_state.some
    /\ res.tend["x"] # FZero
    /\ pre.old_state.st["x"] # pre.state["x"]

\* the filter influence of the last Leapfrog call, from what the call found
C5_Influence ==
    FMul(FMul(FRat(1, 2), cfg.asselin_strength),
         FAdd(FSub(pre.old_state.st["x"], FMul(Two, pre.state["x"])),
              res.unfiltered["x"]))

\* C5 (as amended): after a Leapfrog call that found a retained state, the
\* caller's state and the retained state both hold current + alpha *
\* influence; the returned new state is the unfiltered one when alpha is
\* 1.0 and the unfiltered one plus (alpha - 1) * influence otherwise.
C5_Filter ==
    (cfg.scheme = "Leapfrog" /\ Returned /\ pre.old_state.some) =>
        /\ state["x"] = FAdd(pre.state["x"], FMul(cfg.alpha, C5_Influence))
        /\ old_state = [some |-> TRUE, st |-> state]
        /\ cfg.alpha = One => res.new_state["x"] = res.unfiltered["x"]
        /\ cfg.alpha # One =>
              res.new_state["x"] =
                  FAdd(res.unfiltered["x"],
                       FMul(FSub(cfg.alpha, One), C5_Influence))

\* C5 as stated: ... and the returned new state differs from the unfiltered
\* one if and only if alpha is not 1.0.
C5_ChangedIffAlphaNotOne ==
    (cfg.scheme = "Leapfrog" /\ Returned /\ pre.old_state.some) =>
        /\ state["x"] = FAdd(pre.state["x"], FMul(cfg.alpha, C5_Influence))
        /\ old_state = [some |-> TRUE, st |-> state]
        /\ res.new_state["x"] # res.unfiltered["x"] <=> cfg.alpha # One

C5_Witness ==
    /\ cfg.scheme = "Leapfrog"
    /\ Returned
    /\ pre.old_state.some
    /\ cfg.alpha # One
    /\ C5_Influence # FZero
    /\ state["x"] # pre.state["x"]
    /\ res.new_state["x"] # res.unfiltered["x"]

\* C6 as stated: in every scheme a quantity of the input state that has no
\* tendency is in the new state with exactly the value it had before.
C6_UntouchedExact ==
    Returned =>
        \A key \in DOMAIN pre.state \ DOMAIN res.tend :
            key \in DOMAIN res.new_state /\ res.new_state[key] = pre.state[key]
(***************************************************************************)
(* Component calls                                                         *)
(***************************************************************************)
Phases == <<"check_inflow", "marshal_inflow", "array_call", "check_outflow",
            "marshal_outflow">>

Entered(phase) == phase \in Range(ccall.res.trace)

Checked == ccall.called /\ comp.enable_checks

\* the raw output as the outflow check is handed it: the tracer array of
\* a component that uses tracers has been taken out
Handed(raw) == IF comp.uses_tracers THEN popped(raw, "tracers") ELSE raw

\* the kernel ran and returned, without diagnostics where none is declared
\* and with the tracer array where the component uses tracers
KernelReturned ==
    /\ Entered("array_call")
    /\ ~ccall.kernel.raises
    /\ comp.diagnostic_properties = <<>> => ccall.kernel.diagnostics = <<>>
    /\ comp.uses_tracers =>
          "tracers" \in Keys(ccall.kernel.tendencies) \cup Keys(ccall.kernel.new_state)

\* what the inflow check of the component called makes of the state
InflowVerdict ==
    IF comp.kind # "Stepper"
    THEN InflowComponentChecker_check(comp.input_properties,
             get_aliases(comp.input_properties, comp.input_properties),
             ccall.state)
    ELSE IF check_inputs(comp.input_properties, ccall.state) # ""
    THEN Raised("InvalidStateError", "missing",
                {check_inputs(comp.input_properties, ccall.state)})
    ELSE Passed

\* what an outflow checker of core_components makes of a raw output
CoreVerdict(props, raw) ==
    OutflowComponentChecker_check(props,
        get_aliases(props, comp.input_properties), raw, ccall.state)

\* what the outflow checks of the component called make of the kernel's
\* output, in the order in which the call runs them
OutflowVerdict ==
    IF comp.kind = "DiagnosticComponent"
    THEN CoreVerdict(comp.diagnostic_properties, ccall.kernel.diagnostics)
    ELSE IF comp.kind = "TendencyComponent"
    THEN IF CoreVerdict(comp.tendency_properties,
                        Handed(ccall.kernel.tendencies)).err # ""
         THEN CoreVerdict(comp.tendency_properties,
                          Handed(ccall.kernel.tendencies))
         ELSE CoreVerdict(comp.diagnostic_properties, ccall.kernel.diagnostics)
    ELSE IF check_diagnostics(comp.diagnostic_properties, comp.input_properties,
                              ccall.kernel.diagnostics).err # ""
    THEN check_diagnostics(comp.diagnostic_properties, comp.input_properties,
                           ccall.kernel.diagnostics)
    ELSE check_outputs(comp.output_properties, comp.input_properties,
                       Handed(ccall.kernel.new_state))

\* C7: with validation enabled the phases of a component call run in the
\* order check-inflow, marshal-inflow, kernel, check-outflow,
\* marshal-outflow; the kernel is invoked only after the inflow check has
\* passed, nothing is marshalled out before the outflow check has passed,
\* and when the inflow check raises the call ends there with that error
\* and the kernel is never invoked.
C7_PhaseOrder ==
    Checked =>
        /\ \E n \in 1..Len(Phases) : ccall.res.trace = SubSeq(Phases, 1, n)
        /\ Entered("array_call") => InflowVerdict.err = ""
        /\ Entered("marshal_outflow") =>
              /\ Entered("array_call") /\ ~ccall.kernel.raises
              /\ OutflowVerdict.err = ""
        /\ InflowVerdict.err # "" =>
              /\ ccall.res.trace = <<"check_inflow">>
              /\ ccall.res.outcome = InflowVerdict.err
              /\ ~Entered("array_call")

\* the declared inputs the state holds neither under their name nor under
\* their alias
AbsentInputs ==
    {n \in Names(comp.input_properties) :
        /\ n \notin DOMAIN ccall.state
        /\ PropOf(comp.input_properties, n).alias \notin DOMAIN ccall.state}

\* C8: when the state lacks several of the declared input quantities, the
\* inflow check raises one error, and that error names every absent
\* quantity.
C8_AllAbsentNamed ==
    (Checked /\ Cardinality(AbsentInputs) >= 2) =>
        /\ ccall.res.trace = <<"check_inflow">>
        /\ ccall.res.msg = "missing"
        /\ ccall.res.names = AbsentInputs

\* the declaration the outflow check goes by and the raw output it is
\* handed
Declared ==
    IF comp.kind = "DiagnosticComponent" THEN comp.diagnostic_properties
    ELSE IF comp.kind = "TendencyComponent" THEN comp.tendency_properties
    ELSE comp.output_properties

RawOutput ==
    IF comp.kind = "DiagnosticComponent" THEN ccall.kernel.diagnostics
    ELSE IF comp.kind = "TendencyComponent"
    THEN Handed(ccall.kernel.tendencies)
    ELSE Handed(ccall.kernel.new_state)

RawNames(n) == {n} \cup wanted_aliases(Declared, comp.input_properties)[n]

AllPresent == \A n \in Names(Declared) : RawNames(n) \cap Keys(RawOutput) # {}

NoStrayKey == Keys(RawOutput) \subseteq UNION {RawNames(n) : n \in Names(Declared)}

\* the outflow check raised over the keys of the output
KeysRejected ==
    /\ ccall.res.trace # <<>>
    /\ ccall.res.trace[Len(ccall.res.trace)] = "check_outflow"
    /\ ccall.res.msg \in {"missing", "undeclared", "length"}

\* C9: the outflow check accepts the keys of a raw output exactly when
\* every declared quantity is there under its name or its alias and no key
\* is neither a declared name nor an alias; a missing quantity raises the
\* missing-output error, any other key the unexpected-output error.
C9_KeysAcceptedIff ==
    (Checked /\ KernelReturned) =>
        /\ ~KeysRejected <=> (AllPresent /\ NoStrayKey)
        /\ ~AllPresent =>
              /\ KeysRejected
              /\ ccall.res.msg = "missing"
              /\ ccall.res.outcome \in {"InvalidArrayDictError",
                                        "ComponentMissingOutputError"}
        /\ (AllPresent /\ ~NoStrayKey) =>
              /\ KeysRejected
              /\ ccall.res.msg = "undeclared"
              /\ ccall.res.outcome \in {"InvalidNDArrayLikeDictError",
                                        "ComponentExtraOutputError"}

\* the lengths the quantities of the input state have along a dimension
StateLengths(dim) ==
    UNION {{ccall.state[k].shape[j] :
                j \in {a \in 1..Len(ccall.state[k].dims) :
                          ccall.state[k].dims[a] = dim}} :
              k \in DOMAIN ccall.state}

\* the raw output holds the declared quantity n under one key, and that
\* array has another rank than n has dimensions, or along one of them
\* another length than the input state
Misshapen(n) ==
    /\ Cardinality(RawNames(n) \cap Keys(RawOutput)) = 1
    /\ \E k \in RawNames(n) \cap Keys(RawOutput) :
        LET shape == ItemOf(RawOutput, k).shape
            dims == PropOf(Declared, n).dims
        IN  \/ Len(shape) # Len(dims)
            \/ \E j \in 1..Len(dims) :
                  /\ StateLengths(dims[j]) # {}
                  /\ shape[j] \notin StateLengths(dims[j])

\* C10: with validation enabled, a raw output array whose rank differs
\* from the number of dimensions of its quantity, or whose length along a
\* dimension differs from the length of that dimension in the input
\* state, is rejected and not wrapped into a labeled quantity.
C10_MisshapenRejected ==
    (Checked /\ KernelReturned /\ AllPresent /\ NoStrayKey
        /\ \E n \in Names(Declared) : Misshapen(n)) =>
        /\ ccall.res.outcome # "ok"
        /\ ccall.res.tendencies = <<>>
        /\ ccall.res.diagnostics = <<>>
        /\ ccall.res.new_state = <<>>

(***************************************************************************)
(* Tendencies in diagnostics                                               *)
(***************************************************************************)
\* the names under which the call stores the tendencies it synthesizes
SynthesizedNames ==
    IF comp.kind = "TendencyStepper"
    THEN {get_tendency_name(n, comp.name) : n \in Names(comp.output_properties)}
    ELSE {get_tendency_name(k, comp.name) : k \in DOMAIN ccall.res.tendencies}

\* the diagnostics the call had produced when it came to store them
ProducedDiagnostics ==
    IF comp.kind = "TendencyStepper" THEN ccall.kernel.diagnostics
    ELSE get_dataarray_dict(
             comp.diagnostic_properties,
             get_aliases(comp.diagnostic_properties, comp.input_properties),
             ccall.kernel.diagnostics, ccall.state).out

\* the call got as far as storing the tendencies
InsertionReached ==
    /\ ccall.called
    /\ comp.tendencies_in_diagnostics
    /\ ~ccall.kernel.raises
    /\ ccall.res.outcome \in {"ok", "RuntimeError"}

Clash == InsertionReached /\ SynthesizedNames \cap DOMAIN ProducedDiagnostics # {}

\* C11: a call that comes to store a synthesized tendency under a name the
\* diagnostics of that call already hold raises RuntimeError.
C11_ClashRaises == Clash => ccall.res.outcome = "RuntimeError"

(***************************************************************************)
(* Wildcard resolution                                                     *)
(***************************************************************************)
Resolved ==
    /\ args.fn = "get_wildcard_matches_and_dim_lengths"
    /\ ret.done
    /\ ret.out.err = ""

Declaration == args.property_dictionary

UsesWildcard(props) == \E i \in 1..Len(props) : "*" \in Range(props[i].dims)

\* the dimensions some property of the declaration names explicitly
ExplicitDims(props) ==
    UNION {Range(props[i].dims) : i \in 1..Len(props)} \ {"*"}

\* the dimensions of the state arrays of the declared quantities
StateDims(props) ==
    UNION {Range(args.state[props[i].name].dims) : i \in 1..Len(props)}

\* where a dimension is first seen: the place in the declaration of the
\* first quantity whose array has it, and its axis there
FirstSeen(props, d) ==
    LET i == CHOOSE k \in 1..Len(props) :
                 /\ d \in Range(args.state[props[k].name].dims)
                 /\ \A l \in 1..(k - 1) :
                       d \notin Range(args.state[props[l].name].dims)
        dims == args.state[props[i].name].dims
    IN  <<i, CHOOSE j \in 1..Len(dims) : dims[j] = d>>

Before(p, q) == p[1] < q[1] \/ (p[1] = q[1] /\ p[2] < q[2])

\* C12: the resolved wildcard tuple holds, in first-seen order and without
\* repetition, exactly the dimensions of the declared quantities' arrays
\* that no property of the declaration names explicitly.
C12_WildcardIsTheUnclaimedDims ==
    (Resolved /\ UsesWildcard(Declaration)) =>
        LET w == ret.out.wildcard_names
        IN  /\ Range(w) = StateDims(Declaration) \ ExplicitDims(Declaration)
            /\ \A p, q \in 1..Len(w) :
                  p < q => Before(FirstSeen(Declaration, w[p]),
                                  FirstSeen(Declaration, w[q]))

\* C13: for a fixed state that holds the declared quantities every ordering
\* of the declaration resolves alike: the same error, or the same wildcard
\* tuple and dimension lengths.
C13_OrderOfDeclarationIrrelevant ==
    (/\ args.fn = "get_wildcard_matches_and_dim_lengths"
     /\ ret.done
     /\ Names(Declaration) \subseteq DOMAIN args.state) =>
        \A other \in Orderings(Range(Declaration)) :
            \A r \in {get_wildcard_matches_and_dim_lengths(args.state, other)} :
                /\ r.err = ret.out.err
                /\ r.err = "" =>
                      /\ r.none = ret.out.none
                      /\ r.wildcard_names = ret.out.wildcard_names
                      /\ r.dim_lengths = ret.out.dim_lengths

(***************************************************************************)
(* Marshalling                                                             *)
(***************************************************************************)
MarshalledIn == args.fn = "get_numpy_arrays_with_properties" /\ ret.done

\* two declared quantities of the state have an axis of the same name and
\* of different lengths
ConflictingLengths ==
    \E p, q \in Names(Declaration) \cap DOMAIN args.state :
        \E j \in 1..Len(args.state[p].dims), l \in 1..Len(args.state[q].dims) :
            /\ args.state[p].dims[j] = args.state[q].dims[l]
            /\ args.state[p].shape[j] # args.state[q].shape[l]

\* C14: a declaration whose quantities disagree in the state on the length
\* of a dimension is refused with InvalidStateError and no raw array comes
\* out; where the lengths agree the error of conflicting lengths is not
\* raised.
C14_ConflictingLengthsRefused ==
    (MarshalledIn /\ Names(Declaration) \subseteq DOMAIN args.state) =>
        /\ ConflictingLengths =>
              ret.out.err = "InvalidStateError" /\ ret.out.raw = <<>>
        /\ ~ConflictingLengths => ret.out.msg # "conflicting"

C14_Witness ==
    /\ MarshalledIn
    /\ ConflictingLengths
    /\ ret.out.msg = "conflicting"
    /\ UsesWildcard(Declaration)

MarshalledOut == MarshalledIn /\ "restored" \in DOMAIN ret

\* the dimensions the declaration asks of quantity n on this state: its
\* dims with the wildcard replaced by the dimensions it resolves to
ResolvedDims(n) ==
    LET dims == PropOf(Declaration, n).dims
        w == get_wildcard_matches_and_dim_lengths(args.state, Declaration)
    IN  IF "*" \notin Range(dims) THEN dims
        ELSE SubSeq(dims, 1, IndexOf(dims, "*") - 1) \o w.wildcard_names
                 \o SubSeq(dims, IndexOf(dims, "*") + 1, Len(dims))

\* quantity n comes back from the round trip as it went in
SameQuantity(n) ==
    /\ ret.restored.err = ""
    /\ n \in DOMAIN ret.restored.out
    /\ ret.restored.out[n].data = args.state[n].data
    /\ ret.restored.out[n].dims = args.state[n].dims
    /\ ret.restored.out[n].units = args.state[n].units

\* quantity n is held by the state in the declared units and with its
\* dimensions in the order the declaration resolves to
AsDeclared(n) ==
    /\ args.state[n].units = PropOf(Declaration, n).units
    /\ args.state[n].dims = ResolvedDims(n)

\* quantity n comes back from the round trip as the declaration describes
\* it: the marshalled buffer's data, the declared units and the dimensions
\* the declaration resolves to
RestoredAsDeclared(n) ==
    /\ n \in DOMAIN ret.restored.out
    /\ ret.restored.out[n].data =
           ret.out.raw[get_alias_or_name(n, Declaration, Declaration)].data
    /\ ret.restored.out[n].units = PropOf(Declaration, n).units
    /\ ret.restored.out[n].dims = ResolvedDims(n)

\* C17: when the state holds every declared quantity in the declared units
\* and with its dimensions in the order the declaration resolves to,
\* marshalling in and, unmodified, out again through the same declaration
\* gives every quantity back with the same data, the same dimensions in the
\* same order and the same units.  For any other accepted state the
\* restoration raises InvalidPropertyDictError or returns every declared
\* quantity with the data of the marshalled buffer, the declared units and
\* the dimensions the declaration resolves to.
C17_RoundTripAsDeclared ==
    MarshalledOut =>
        /\ (\A n \in Names(Declaration) : AsDeclared(n)) =>
               \A n \in Names(Declaration) : SameQuantity(n)
        /\ ret.restored.err \in {"", "InvalidPropertyDictError"}
        /\ ret.restored.err = "" =>
               \A n \in Names(Declaration) : RestoredAsDeclared(n)

\* the same of every state the declaration accepts, whatever the units and
\* the order of the dimensions its quantities are held in
C17_RoundTripOfAnyQuantity ==
    MarshalledOut => \A n \in Names(Declaration) : SameQuantity(n)

C17_Witness ==
    /\ MarshalledOut
    /\ \A n \in Names(Declaration) : AsDeclared(n) /\ SameQuantity(n)
    /\ \E n \in Names(Declaration) :
          /\ "*" \in Range(PropOf(Declaration, n).dims)
          /\ Len(get_wildcard_matches_and_dim_lengths(
                     args.state, Declaration).wildcard_names) >= 2

(***************************************************************************)
(* Combining declarations                                                  *)
(***************************************************************************)
CombinedDims == args.fn = "combine_dims" /\ ret.done

OneWildcard ==
    /\ args.dims1 # args.dims2
    /\ ("*" \in Range(args.dims1)) # ("*" \in Range(args.dims2))

WildcardSpec == IF "*" \in Range(args.dims1) THEN args.dims1 ELSE args.dims2
ExplicitSpec == IF "*" \in Range(args.dims1) THEN args.dims2 ELSE args.dims1

\* the names of the wildcard specification are among the explicit ones
SubsetMatch == Range(WildcardSpec) \ {"*"} \subseteq Range(ExplicitSpec)

\* C15: combining two different dims specifications of which exactly one
\* has the wildcard succeeds only on a subset match, gives the union of the
\* named dimensions with the wildcard token, and raises or returns alike
\* whichever argument carries the wildcard.
C15_CombineWithOneWildcard ==
    (CombinedDims /\ OneWildcard) =>
        /\ ret.out.err = "" => SubsetMatch
        /\ ret.out.err = "" =>
               Range(ret.out.dims) = Range(args.dims1) \cup Range(args.dims2)
        /\ \A swapped \in combine_dims(args.dims2, args.dims1) :
               (swapped.err = "") = (ret.out.err = "")

CombinedProperties == args.fn = "combine_properties" /\ ret.done

PairwiseCompatible ==
    \A P \in {args.P1, args.P2, args.P3}, Q \in {args.P1, args.P2, args.P3} :
        \A n \in Names(P) \cap Names(Q) :
            units_are_compatible(PropOf(P, n).units, PropOf(Q, n).units)

\* both raise, or both return the same names with the same sets of dims
SameOutcome(r, q) ==
    /\ (r.err = "") = (q.err = "")
    /\ r.err = "" =>
          /\ Names(r.props) = Names(q.props)
          /\ \A n \in Names(r.props) :
                Range(PropOf(r.props, n).dims) = Range(PropOf(q.props, n).dims)

\* C16: three declarations of pairwise compatible units combine to the
\* same outcome whether the first two or the last two are combined first.
C16_GroupingIrrelevant ==
    (CombinedProperties /\ PairwiseCompatible) =>
        \A q \in combine_right(args.P1, args.P2, args.P3) :
            SameOutcome(ret.out, q)

(***************************************************************************)
(* Units of the arrays handed to the kernel                                *)
(***************************************************************************)
KernelReached ==
    ccall.called /\ ret.done /\ "array_call" \in Range(ccall.res.trace)

RawName(n) ==
    IF PropOf(comp.input_properties, n).alias # ""
    THEN PropOf(comp.input_properties, n).alias ELSE n

\* the state with every declared quantity converted to its declared units
InDeclaredUnits(st) ==
    [k \in DOMAIN st |->
        [st[k] EXCEPT !.data =
            DataArray_to_units(st[k], PropOf(comp.input_properties, k).units).data]]

\* C18: when the kernel of a component call is reached, every declared
\* input quantity of the state has units compatible with the declared
\* ones, and the array handed over for it holds its values in the declared
\* units.
C18_BuffersInDeclaredUnits ==
    KernelReached =>
        \A n \in Names(comp.input_properties) \cap DOMAIN ccall.state :
            /\ units_are_compatible(ccall.state[n].units,
                                    PropOf(comp.input_properties, n).units)
            /\ ret.out[RawName(n)] =
                   get_ndarray_dict_data(
                       comp.input_properties,
                       get_aliases(comp.input_properties, comp.input_properties),
                       InDeclaredUnits(ccall.state))[RawName(n)]

(***************************************************************************)
(* Construction                                                            *)
(***************************************************************************)
Constructed == args.fn = "__init__" /\ ret.done

\* the declarations of the component, and the entries that have an alias
Declarations ==
    {comp.input_properties, comp.diagnostic_properties,
     comp.tendency_properties, comp.output_properties}
Aliased == {p \in UNION {Range(D) : D \in Declarations} : p.alias # ""}

\* C19: once a component has been constructed with validation, no call of
\* it raises InvalidPropertyDictError, whatever the state and whatever the
\* kernel returns.
C19_NoPropertyErrorAfterConstruction ==
    (Constructed /\ comp.enable_checks /\ ret.out.err = "" /\ ccall.called) =>
        ccall.res.outcome # "InvalidPropertyDictError"

\* two different quantity names are given the same alias
TwoNamesOneAlias == \E p, q \in Aliased : p.name # q.name /\ p.alias = q.alias

\* a quantity has one alias in the input declaration and another in the
\* output, tendency or diagnostic declaration
OneNameTwoAliases ==
    \E p \in Aliased \cap Range(comp.input_properties),
       q \in Aliased \ Range(comp.input_properties) :
        p.name = q.name /\ p.alias # q.alias

\* C20: construction with validation is rejected with
\* InvalidPropertyDictError whenever two different names map to the same
\* alias and whenever one name is given two different aliases.
C20_AliasCollisionsRejected ==
    (Constructed /\ comp.enable_checks
         /\ (TwoNamesOneAlias \/ OneNameTwoAliases)) =>
        ret.out.err = "InvalidPropertyDictError"

(***************************************************************************)
(* Instances                                                               *)
(***************************************************************************)
\* C21: instances of one class are independent: the declarations of each
\* are what they were when its construction finished, the outcome of its
\* validation is what it is for the only instance of the class, and a call
\* of it gives what it gives with the declarations of its construction.
C21_InstancesIndependent ==
    objs.style # "none" =>
        /\ \A i \in 1..Len(objs.insts) :
               /\ objs.insts[i].err = "" => InstanceDecl(i) = objs.insts[i].at_init
               /\ objs.insts[i].err = objs.insts[i].alone
        /\ objs.call.called => objs.call.res = objs.call.expected

(***************************************************************************)
(* Calls without validation                                                *)
(***************************************************************************)
\* C22: a call of a component constructed with enable_checks=False raises
\* no error about a missing quantity, a missing or unexpected output, a
\* shape or the length of a dimension: it returns, or fails in the kernel
\* or in the array library.
C22_NoValidationWithoutChecks ==
    (ccall.called /\ ~comp.enable_checks) =>
        ccall.res.outcome \in {"ok", "KernelError", "ValueError"}

(***************************************************************************)
(* Calls without the __init__ of the base class                            *)
(***************************************************************************)
\* C23: the call of a component whose __init__ did not call the __init__
\* of the base class raises RuntimeError, AssertionError for a
\* TendencyStepper, with the message about the missing call to
\* super().__init__, and never reaches the kernel.
C23_MissingSuperInitReported ==
    (ccall.called /\ ~args.super_init) =>
        /\ ccall.res.outcome = IF comp.kind = "TendencyStepper"
                               THEN "AssertionError" ELSE "RuntimeError"
        /\ ccall.res.msg = "missing call to super().__init__"
        /\ "array_call" \notin Range(ccall.res.trace)

(***************************************************************************)
(* Synthesized tendency diagnostics                                        *)
(***************************************************************************)
DeclaredTendencyNames ==
    {get_tendency_name(q, comp.name) : q \in Names(comp.tendency_properties)}

\* C24: with tendencies_in_diagnostics and validation enabled, a kernel
\* that returns exactly the diagnostics the component declared itself is
\* never reported to miss a synthesized '{quantity}_tendency_from_{name}'
\* output.
C24_SynthesizedNamesIgnored ==
    (/\ ccall.called
     /\ comp.kind = "TendencyComponent"
     /\ comp.enable_checks
     /\ comp.tendencies_in_diagnostics
     /\ ~ccall.kernel.raises
     /\ Keys(ccall.kernel.diagnostics)
            = Names(comp.diagnostic_properties) \ DeclaredTendencyNames) =>
        ~(/\ ccall.res.outcome = "InvalidArrayDictError"
          /\ ccall.res.msg = "missing"
          /\ ccall.res.names \cap DeclaredTendencyNames # {})

(***************************************************************************)
(* SSPRungeKutta on a constant tendency                                    *)
(***************************************************************************)
\* C25: when the tendency of a quantity is the same constant c in every
\* stage, one SSPRungeKutta call with timestep dt returns
\* state + c * dt for it, with two stages and with three.
C25_ConstantTendency ==
    ret.done =>
        /\ ret.out.outcome = "ok"
        /\ ret.out.new_state["x"]
              = FAdd(args.state["x"], FMul(args.c, total_seconds(args.dt)))

(***************************************************************************)
(* Leapfrog: fixed points and the filter                                   *)
(***************************************************************************)
\* every call so far returned, and with a zero tendency
ZeroTendencies ==
    /\ cfg.scheme = "Leapfrog"
    /\ ncalls >= 1
    /\ nok = ncalls
    /\ \A i \in 1..Len(evals) : evals[i]["x"] = FZero

\* C26: while the tendency is zero at every call, each Leapfrog call returns
\* the state it was given, which is the initial state, its filter influence
\* is zero, and the caller's current state is left as it was.
C26_ZeroTendencyFixedPoint ==
    ZeroTendencies =>
        /\ res.new_state = pre.state
        /\ res.new_state = FullState
        /\ \A key \in DOMAIN res.influence : res.influence[key] = FZero
        /\ state = pre.state
        /\ old_state = [some |-> TRUE, st |-> pre.state]

C26_Witness ==
    /\ ZeroTendencies
    /\ ncalls >= 3
    /\ pre.old_state.some
    /\ "x" \in DOMAIN res.influence

\* the shifts of the last Leapfrog call: of the current value, and of the
\* new value with the sign given
ShiftOfCurrent == FMul(cfg.alpha, res.influence["x"])
ShiftOfNew(factor) ==
    IF cfg.alpha = One THEN FZero ELSE FMul(factor, res.influence["x"])

\* C27: in a Leapfrog step after the first the filter shifts the current
\* value by alpha * influence and the new value by (1 - alpha) * influence.
C27_ShiftsAsStated ==
    (cfg.scheme = "Leapfrog" /\ Returned /\ pre.old_state.some) =>
        /\ state["x"] = FAdd(pre.state["x"], ShiftOfCurrent)
        /\ res.new_state["x"] =
              FAdd(res.unfiltered["x"], ShiftOfNew(FSub(One, cfg.alpha)))

(***************************************************************************)
(* The order of the wildcard dimensions in the raw arrays                  *)
(***************************************************************************)
\* a and b are declared with the same dims, which hold the wildcard, and b
\* holds the values of a
SameValuesSameDeclaration ==
    /\ MarshalledIn
    /\ {"a", "b"} \subseteq Names(Declaration)
    /\ PropOf(Declaration, "a").dims = PropOf(Declaration, "b").dims
    /\ "*" \in Range(PropOf(Declaration, "a").dims)
    /\ args.state["b"] = Reordered(args.state["a"], args.state["b"].dims)

\* C28: quantities declared with the wildcard in one declaration are
\* marshalled with one order of the wildcard dimensions: two quantities
\* that hold the same values, whatever the order of their axes, give equal
\* raw arrays.
C28_SameWildcardOrder ==
    (SameValuesSameDeclaration /\ ret.out.err = "") =>
        ret.out.raw["a"] = ret.out.raw["b"]

C28_Witness ==
    /\ SameValuesSameDeclaration
    /\ ret.out.err = ""
    /\ Len(args.state["a"].dims) = 3
    /\ args.state["a"].dims # args.state["b"].dims
    /\ args.state["a"].data # args.state["b"].data
    /\ Len(ret.out.raw["a"].shape) < 3

(***************************************************************************)
(* Constants                                                               *)
(***************************************************************************)
\* following the aliases from name leads to key, which is no alias
RECURSIVE LeadsTo(_, _, _)
LeadsTo(name, key, hops) ==
    IF name \notin DOMAIN objs.constant_aliases THEN name = key
    ELSE hops > 0 /\ LeadsTo(objs.constant_aliases[name], key, hops - 1)
Resolves(name, key) == LeadsTo(name, key, Cardinality(ConstantNames))
\* the names a constant can be stored under: those that are set and read
\* and those an alias stands for
ConstantKeys ==
    ConstantNames
        \cup {objs.constant_aliases[n] : n \in DOMAIN objs.constant_aliases}
Circular(name) == \A key \in ConstantKeys : ~Resolves(name, key)

\* the last set_constant returned and get_constant was called after it
SetThenGet == args.fn = "set_constant" /\ args.err = "" /\ ret.done

\* C29: after set_constant(name, v, u), get_constant(n, u) returns v for
\* the name and for every alias that resolves to the same key; the
\* resolution follows chains of aliases and raises RuntimeError on
\* circular aliases, and only on them.
C29_SetThenGet ==
    /\ SetThenGet =>
          \A key \in ConstantKeys :
              (/\ Resolves(args.name, key)
               /\ Resolves(ret.out.name, key)
               /\ ret.out.units = args.units) =>
                  ret.out.err = "" /\ ret.out.value = args.value
    /\ ret.done => (ret.out.err = "RuntimeError" <=> Circular(ret.out.name))
    /\ args.fn = "set_constant" =>
          (args.err = "RuntimeError" <=>
              (is_valid_unit(args.units) /\ Circular(args.name)))

C29_Witness ==
    /\ SetThenGet
    /\ args.name = "a1"
    /\ ret.out.name = "a3"
    /\ Resolves("a1", "k") /\ Resolves("a3", "k")
    /\ ret.out.units = args.units
    /\ ret.out.value = args.value

(***************************************************************************)
(* Rejected calls                                                          *)
(***************************************************************************)
\* C30: a call rejected with the constant-timestep ValueError leaves the
\* recorded timestep, the Adams-Bashforth tendency history, the Leapfrog
\* retained state and the caller's state as they were before the call; the
\* result of a call is a function of these and of the call's arguments, so
\* the following call returns what it would have returned without the
\* rejected one.
C30_RejectedCallChangesNothing ==
    TimestepError =>
        /\ timestep = pre.timestep
        /\ timestep = first_dt
        /\ tendencies_list = pre.tendencies_list
        /\ old_state = pre.old_state
        /\ state = pre.state

C30_Witness ==
    /\ TimestepError
    /\ cfg.scheme = "AdamsBashforth"
    /\ Len(pre.tendencies_list) >= 2
    /\ tendencies_list = pre.tendencies_list
    /\ pre.dt # pre.timestep

=============================================================================
